---- MODULE Spec2Model ----
(***************************************************************************)
(* A model of the chain stores and of the peer-to-peer actors of the       *)
(* bitcoinrs library.                                                      *)
(*                                                                         *)
(*   SpecChain     BlockChain of blockchain/blockchain.rs                  *)
(*                                                                         *)
(* Block headers are records [prev_blockhash, nonce].  The double SHA-256  *)
(* of a header is modelled by an injective function of the header's        *)
(* fields: the hash of a header is the hash of its predecessor followed by *)
(* the header's nonce, and the all-zero hash is the empty sequence.        *)
(***************************************************************************)
EXTENDS Integers, Sequences, FiniteSets, TLC

(***************************************************************************)
(* Bounds of the model.                                                    *)
(***************************************************************************)
\* the prev_blockhash of an offered header is a hash of at most this length
MaxPrevLen == 3
\* try_add of BlockChain is offered no header once the tree has this many nodes
MaxNodes == 5
\* try_add of BlockChainMut is offered no block once it allocated this many nodes
MaxMutNodes == 16
\* BlockChainMut is offered at most this many blocks that fork or repeat a block
MaxSide == 1
\* the Connection actor is given at most this many requests and peer messages
MaxConnEvents == 4
\* the peer of a SyncBlockChain job is at most this many headers ahead
MaxPeerAhead == 4
\* the peer of a SyncBlockChain job sends at most this many unrequested messages
MaxUnsolicited == 1
\* the peer of a socket sends at most this many frames
MaxFrames == 4
\* the nodes of a BlockChain whose locator is taken, and those of them off
\* the chain of the headers with nonce 0
MaxLocatorNodes == 13
MaxLocatorSide == 1
\* the blocks a caller of download_full_blocks asks for in one call
MaxReqBlocks == 3
\* the peer of a listener sends at most this many unrequested messages
MaxListenSent == 2
\* Node is given at most this many subscribers, and recv_block this many blocks
MaxSubscribers == 3
MaxNodeBlocks == 3
\* the arguments of BlockAssociatedDataManager::update start at most at this
\* height and hold at most this many entries; update and pop are called at
\* most this many times
MaxDmHeight == 2
MaxDmRun == 2
MaxDmCalls == 3
\* the chain given to download_blocks holds at most this many header-only blocks
MaxIbdBlocks == 17
\* the caller of the mutex-guarded Connection calls getheaders at most this
\* often, and its peer sends at most this many pings
MaxMxCalls == 3
MaxMxPings == 1
\* the ActorRefs of an actor send at most this many mails
MaxActMails == 5
\* the nodes of the BlockChainMut of a program that holds either store
MaxStoreNodes == 14
\* NUM_MAX_HEADERS_IN_MSG, the number of headers of a full headers message:
\* 2000 in p2p/sync_blockchain.rs, scaled down here
NUM_MAX_HEADERS_IN_MSG == 2

VARIABLES
    bc_nodes,       \* BlockChain: the heap of Arc<RefCell<Node>>, in allocation order
    active_nodes,   \* BlockChain.active_nodes: VecDeque of node pointers
    bc_call,        \* the header given to the last call of with_start / try_add
    bc_ret,         \* what the last call of BlockChain::try_add returned
    bc_panic,       \* TRUE once a panic!/unreachable! of blockchain.rs was hit
    bt_nodes,       \* BlockChainMut: the heap of BlockTreeNode, in allocation order
    head,           \* BlockTree.head
    last,           \* BlockTree.last
    len,            \* BlockTree.len
    stable_chain,   \* StableBlockChain.blocks
    bcm_call,       \* the block given to the last call of with_start / try_add
    bcm_ret,        \* what the last call of BlockChainMut::try_add returned
    bcm_panic,      \* TRUE once a panic of blockchainmut.rs was hit
    conn,           \* the Connection actor: its fields and the state of its context
    conn_call,      \* the event the Connection actor handled last
    conn_events,    \* how many requests and peer messages the Connection was given
    conn_mailbox,   \* the mailbox of the Connection actor
    stream_in,      \* the messages of the peer read from the socket, not yet handled
    wire_out,       \* the messages written to the socket
    delivered,      \* the messages sent to recipients
    sync,           \* the SyncBlockChain actor: its fields and the state of its context
    notified,       \* the SyncBlockChainResult messages sent to notify
    peer_len,       \* how many headers the peer's chain holds after the start block
    peer_sent,      \* how many messages the peer sent without being asked
    sock_in,        \* the bytes of the peer not yet read from the socket
    sock_ret,       \* what the last recv_msg returned
    hs,             \* the future of begin_handshake
    hs_out,         \* the messages begin_handshake sent
    job,            \* the future of the peer library that is running, and its Peer
    job_ret,        \* what the future resolved with
    full_node,      \* Node of node.rs: its subscribers and what recv_block returned
    chans,          \* the channels given to add_subscriber, in the order they were made
    dm,             \* the BlockAssociatedDataManager and its last call
    ibd,            \* the future of download_blocks of process/ibd.rs and its peer
    mx,             \* the mutex-guarded Connection, its caller and its receive task
    act             \* the task of spawn_actor_with, its channel and its Actor

chainVars == <<bc_nodes, active_nodes, bc_call, bc_ret, bc_panic>>

mutVars == <<bt_nodes, head, last, len, stable_chain, bcm_call, bcm_ret, bcm_panic>>

connVars == <<conn, conn_call, conn_events, conn_mailbox, stream_in, wire_out, delivered>>

syncVars == <<sync, notified, peer_len, peer_sent>>

sockVars == <<sock_in, sock_ret, hs, hs_out>>

jobVars == <<job, job_ret>>

extVars == <<full_node, chans, dm, ibd, mx, act>>

vars == <<chainVars, mutVars, connVars, syncVars, sockVars, jobVars, extVars>>

(***************************************************************************)
(* Headers and hashes.                                                     *)
(***************************************************************************)
\* the nonces of the offered headers: two competing headers for each parent
Nonces == {0, 1}

\* the heights a start block may have
StartHeights == {0, 2}

\* Sha256dHash::default()
NullHash == <<>>

RECURSIVE HashesOfLen(_)
HashesOfLen(n) ==
    IF n = 0 THEN {<<>>}
    ELSE {Append(s, x) : s \in HashesOfLen(n - 1), x \in Nonces}

HashesUpTo(n) == UNION {HashesOfLen(k) : k \in 0..n}

\* the headers a caller or a peer may offer
Headers == {[prev_blockhash |-> p, nonce |-> x] : p \in HashesUpTo(MaxPrevLen), x \in Nonces}

\* BitcoinHash for BlockHeader: injective in the header's fields
header_bitcoin_hash(header) == Append(header.prev_blockhash, header.nonce)

\* BlockData::new(header, height); its bitcoin_hash() is the cached header hash
BlockData(header, height) ==
    [header |-> header, height |-> height, hash |-> header_bitcoin_hash(header)]

bitcoin_hash(block) == block.hash

\* no node: Weak::new(), Option::None
NoNode == 0

(***************************************************************************)
(* BlockChain (blockchain/blockchain.rs).                                  *)
(***************************************************************************)
\* Node::new
Node_new(block) == [prev |-> NoNode, nexts |-> <<>>, block |-> block]

\* the start block: a header without a known predecessor
StartHeader == [prev_blockhash |-> NullHash, nonce |-> 0]

\* Node::borrow_then_get_prev: prev.upgrade()
borrow_then_get_prev(nodes, n) == nodes[n].prev

\* ActiveChain::len
ActiveChain_len(nodes, active) == Len(active)

\* ActiveChain::iter: the blocks of the active nodes, oldest first
ActiveChain_iter(nodes, active) == [i \in 1..Len(active) |-> nodes[active[i]].block]

\* ActiveChain::latest_block
latest_block(nodes, active) == nodes[active[Len(active)]].block

\* ActiveChain::get_block: the index in active_nodes of the block of the
\* given height (0 for None)
get_block_idx(nodes, active, height) ==
    LET start_height == nodes[active[1]].block.height IN
    IF height < start_height THEN 0
    ELSE IF (height - start_height) + 1 <= Len(active)
         THEN (height - start_height) + 1
         ELSE 0

\* mutant of contains: the heights are compared, the hashes are not
contains_by_height(nodes, active, block) ==
    get_block_idx(nodes, active, block.height) # 0

\* ActiveChain::contains
contains(nodes, active, block) ==
    LET i == get_block_idx(nodes, active, block.height) IN
    IF i = 0 THEN FALSE
    ELSE bitcoin_hash(nodes[active[i]].block) = bitcoin_hash(block)

RECURSIVE Reverse(_)
Reverse(s) == IF s = <<>> THEN <<>> ELSE Append(Reverse(Tail(s)), Head(s))

Take(s, n) == SubSeq(s, 1, IF Len(s) < n THEN Len(s) ELSE n)

\* mutant of locator_hashes_vec: the first 10 blocks of the chain are taken
locator_hashes_vec_oldest(nodes, active) ==
    LET blocks == Reverse(Take(ActiveChain_iter(nodes, active), 10)) IN
    [i \in 1..Len(blocks) |-> bitcoin_hash(blocks[i])]

\* ActiveChain::locator_hashes / locator_hashes_vec
locator_hashes_vec(nodes, active) ==
    LET blocks == Take(Reverse(ActiveChain_iter(nodes, active)), 10) IN
    [i \in 1..Len(blocks) |-> bitcoin_hash(blocks[i])]

\* borrow_then_find_node: depth first search, the children before the node
RECURSIVE find_node_inner(_, _, _), find_node_nexts(_, _, _, _)
find_node_nexts(nodes, nexts, i, hash) ==
    IF i > Len(nexts) THEN NoNode
    ELSE LET r == find_node_inner(nodes, nexts[i], hash) IN
         IF r # NoNode THEN r ELSE find_node_nexts(nodes, nexts, i + 1, hash)

\* mutant of find_node_inner: the node's own hash is not compared
find_node_inner_unchecked(nodes, n, hash) ==
    LET r == find_node_nexts(nodes, nodes[n].nexts, 1, hash) IN
    IF r # NoNode THEN r ELSE n

find_node_inner(nodes, n, hash) ==
    LET r == find_node_nexts(nodes, nodes[n].nexts, 1, hash) IN
    IF r # NoNode THEN r
    ELSE IF bitcoin_hash(nodes[n].block) = hash THEN n
    ELSE NoNode

borrow_then_find_node(nodes, active, hash) == find_node_inner(nodes, active[1], hash)

\* Node::borrow_mut_then_append_block: the heap after the allocation; the new
\* node is the last one
borrow_mut_then_append_block(nodes, n, block) ==
    LET new_node == [prev |-> n, nexts |-> <<>>, block |-> block]
        linked == [nodes EXCEPT ![n].nexts = Append(@, Len(nodes) + 1)]
    IN Append(linked, new_node)

\* borrow_then_find_last_common (NoNode where the code is unreachable!())
RECURSIVE borrow_then_find_last_common(_, _, _)
borrow_then_find_last_common(nodes, active, n) ==
    IF contains(nodes, active, nodes[n].block) THEN n
    ELSE IF borrow_then_get_prev(nodes, n) = NoNode THEN NoNode
    ELSE borrow_then_find_last_common(nodes, active, borrow_then_get_prev(nodes, n))

\* borrow_then_rewind_active_chain: VecDeque::truncate
borrow_then_rewind_active_chain(nodes, active, rewind_height) ==
    LET start_height == nodes[active[1]].block.height
        rewind_idx == (rewind_height - start_height) + 1
    IN IF rewind_idx < Len(active) THEN SubSeq(active, 1, rewind_idx) ELSE active

\* mutant of borrow_then_append_nodes: only the new node is pushed
append_nodes_last_only(nodes, active, n) == Append(active, n)

\* borrow_then_append_nodes (<<>> where the code panics)
RECURSIVE borrow_then_append_nodes(_, _, _)
borrow_then_append_nodes(nodes, active, n) ==
    LET prev_node == borrow_then_get_prev(nodes, n) IN
    IF prev_node = NoNode THEN <<>>
    ELSE IF prev_node # active[Len(active)]
         THEN LET a == borrow_then_append_nodes(nodes, active, prev_node) IN
              IF a = <<>> THEN <<>> ELSE Append(a, n)
         ELSE Append(active, n)

Ok == [ok |-> TRUE]
NotFoundPrevBlock(header) == [ok |-> FALSE, err |-> header]

\* mutant of try_add_new_tip: a branch of equal height is adopted too
try_add_new_tip_on_tie(nodes, active, new_node) ==
    LET tail_block_height == nodes[active[Len(active)]].block.height
        new_block_height == nodes[new_node].block.height
    IN IF tail_block_height <= new_block_height
       THEN LET last_common_node == borrow_then_find_last_common(nodes, active, new_node) IN
            IF last_common_node = NoNode THEN <<>>
            ELSE borrow_then_append_nodes(
                     nodes,
                     borrow_then_rewind_active_chain(
                         nodes, active, nodes[last_common_node].block.height),
                     new_node)
       ELSE active

\* the active chain after try_add_inner linked new_node (<<>> on a panic)
try_add_new_tip(nodes, active, new_node) ==
    LET tail_block_height == nodes[active[Len(active)]].block.height
        new_block_height == nodes[new_node].block.height
    IN IF tail_block_height < new_block_height
       THEN LET last_common_node == borrow_then_find_last_common(nodes, active, new_node) IN
            IF last_common_node = NoNode THEN <<>>
            ELSE borrow_then_append_nodes(
                     nodes,
                     borrow_then_rewind_active_chain(
                         nodes, active, nodes[last_common_node].block.height),
                     new_node)
       ELSE active

\* BlockChain::try_add_inner on the tree (nodes, active): the tree afterwards,
\* the value returned, and whether the call panicked
try_add_inner(nodes, active, block_header) ==
    LET prev_node == borrow_then_find_node(nodes, active, block_header.prev_blockhash) IN
    IF prev_node = NoNode
    THEN [nodes |-> nodes, active |-> active,
          ret |-> NotFoundPrevBlock(block_header), panic |-> FALSE]
    ELSE LET new_block_height == nodes[prev_node].block.height + 1
             new_block_data == BlockData(block_header, new_block_height)
             nodes2 == borrow_mut_then_append_block(nodes, prev_node, new_block_data)
             new_node == Len(nodes2)
             active2 == try_add_new_tip(nodes2, active, new_node)
         IN IF active2 = <<>>
            THEN [nodes |-> nodes2, active |-> active, ret |-> Ok, panic |-> TRUE]
            ELSE [nodes |-> nodes2, active |-> active2, ret |-> Ok, panic |-> FALSE]

\* BlockChain::try_add
BlockChain_try_add(block_header) ==
    /\ ~bc_panic
    /\ bc_call' = block_header
    /\ LET r == try_add_inner(bc_nodes, active_nodes, block_header) IN
       /\ bc_nodes' = r.nodes
       /\ active_nodes' = r.active
       /\ bc_panic' = r.panic
       /\ bc_ret' = IF r.panic THEN bc_ret ELSE r.ret

\* BlockChain::with_start(BlockData::new(start header, height))
ChainInit ==
    /\ \E h \in StartHeights :
           bc_nodes = <<Node_new(BlockData(StartHeader, h))>>
    /\ active_nodes = <<1>>
    /\ bc_call = StartHeader
    /\ bc_ret = Ok
    /\ bc_panic = FALSE

(***************************************************************************)
(* BlockChainMut (blockchain/blockchainmut.rs).  A freed BlockTreeNode     *)
(* stays in the heap with freed = TRUE, so that a pointer to it dangles.   *)
(***************************************************************************)
ENOUGH_CONFIRMATION == 12

\* BlockData::new(header) of the tests: a StoredBlock that is a header
StoredBlock(header) == [header |-> header, hash |-> header_bitcoin_hash(header)]

\* BlockTreeNode of BlockTree::with_start
BlockTreeNode_start(block) == [prev |-> NoNode, nexts |-> <<>>, freed |-> FALSE, block |-> block]

\* append_block_to_node: the heap after the allocation; the new node is the
\* last one
append_block_to_node(nodes, n, block) ==
    LET new_node == [prev |-> n, nexts |-> <<>>, freed |-> FALSE, block |-> block]
        linked == [nodes EXCEPT ![n].nexts = Append(@, Len(nodes) + 1)]
    IN Append(linked, new_node)

\* find_node_by_hash: the node is compared before its children
RECURSIVE find_node_by_hash(_, _, _), find_node_by_hash_nexts(_, _, _, _)
find_node_by_hash_nexts(nodes, nexts, i, hash) ==
    IF i > Len(nexts) THEN NoNode
    ELSE LET r == find_node_by_hash(nodes, nexts[i], hash) IN
         IF r # NoNode THEN r ELSE find_node_by_hash_nexts(nodes, nexts, i + 1, hash)

find_node_by_hash(nodes, n, hash) ==
    IF bitcoin_hash(nodes[n].block) = hash THEN n
    ELSE find_node_by_hash_nexts(nodes, nodes[n].nexts, 1, hash)

\* mutant of depth_from_root: every node counts as the root
depth_from_root_flat(nodes, n) == 0

\* depth_from_root
RECURSIVE depth_from_root(_, _)
depth_from_root(nodes, n) ==
    IF nodes[n].prev # NoNode THEN 1 + depth_from_root(nodes, nodes[n].prev) ELSE 0

\* mutant of find_prior_node: one level more than asked for
RECURSIVE find_prior_node_one_more(_, _, _)
find_prior_node_one_more(nodes, from, back) ==
    IF nodes[from].prev = NoNode THEN NoNode
    ELSE IF back = 0 THEN nodes[from].prev
    ELSE find_prior_node_one_more(nodes, nodes[from].prev, back - 1)

\* mutant of find_prior_node: no node is ever found
find_prior_node_none(nodes, from, back) == NoNode

\* find_prior_node
RECURSIVE find_prior_node(_, _, _)
find_prior_node(nodes, from, back) ==
    IF back = 0 THEN from
    ELSE IF nodes[from].prev # NoNode THEN find_prior_node(nodes, nodes[from].prev, back - 1)
    ELSE NoNode

\* drop_with_sub_node: the nodes it frees
RECURSIVE drop_with_sub_node(_, _)
drop_with_sub_node(nodes, n) ==
    {n} \cup UNION {drop_with_sub_node(nodes, nodes[n].nexts[i]) : i \in 1..Len(nodes[n].nexts)}

\* prev_nodes: the nodes above n, oldest first
RECURSIVE prev_nodes(_, _)
prev_nodes(nodes, n) ==
    IF nodes[n].prev = NoNode THEN <<>>
    ELSE Append(prev_nodes(nodes, nodes[n].prev), nodes[n].prev)

\* BlockTree::iter, BlockTreeIter::from_last_node: the nodes from the head to
\* last (the array of the iterator has ENOUGH_CONFIRMATION + 1 slots)
BlockTree_iter(nodes, l) == Append(prev_nodes(nodes, l), l)

BlockTree_iter_fits(nodes, l) == Len(prev_nodes(nodes, l)) <= ENOUGH_CONFIRMATION

\* UnstableBlockChain::iter: the blocks of BlockTree::iter
UnstableBlockChain_iter(nodes, l) ==
    LET it == BlockTree_iter(nodes, l) IN [i \in 1..Len(it) |-> nodes[it[i]].block]

\* BlockChainMut::iter: the stable blocks, then the unstable ones
BlockChainMut_iter == stable_chain \o UnstableBlockChain_iter(bt_nodes, last)

\* BlockChainMut::len
BlockChainMut_len == Len(stable_chain) + len

\* BlockChainMut::latest_block
BlockChainMut_latest_block == BlockChainMut_iter[Len(BlockChainMut_iter)]

InvalidBlock == [ok |-> FALSE, err |-> "InvalidBlock"]

\* mutant of add_block: the stabled block is put in front
add_block_in_front(blocks, stabled) == <<stabled>> \o blocks

\* mutant of add_block: the stabled block is dropped
add_block_skipped(blocks, stabled) == blocks

\* StableBlockChain::add_block
add_block(blocks, stabled) == Append(blocks, stabled)

\* mutant of stabled_drops: the subtree of enough_confirmed is dropped too
stabled_drops_all(nodes, h, enough_confirmed) == drop_with_sub_node(nodes, h)

\* the nodes freed when the head is stabled: the head and the subtrees of its
\* children other than enough_confirmed
stabled_drops(nodes, h, enough_confirmed) ==
    {h} \cup UNION {drop_with_sub_node(nodes, nodes[h].nexts[i]) :
                       i \in {j \in 1..Len(nodes[h].nexts) : nodes[h].nexts[j] # enough_confirmed}}

\* the BlockChainMut as a value
MutState ==
    [bt_nodes |-> bt_nodes, head |-> head, last |-> last, len |-> len,
     stable_chain |-> stable_chain, bcm_call |-> bcm_call, bcm_ret |-> bcm_ret,
     bcm_panic |-> bcm_panic]

\* BlockChainMut::try_add, UnstableBlockChain::try_add, BlockTree::try_add on
\* the BlockChainMut m: the BlockChainMut after the call
try_add_on(m, block) ==
    LET node == find_node_by_hash(m.bt_nodes, m.head, block.header.prev_blockhash)
        called == [m EXCEPT !.bcm_call = block.header]
    IN
       IF node = NoNode
       THEN [called EXCEPT !.bcm_ret = InvalidBlock]
       ELSE LET nodes2 == append_block_to_node(m.bt_nodes, node, block)
                new_node == Len(nodes2)
                old_tip_depth == depth_from_root(nodes2, m.last)
                new_node_depth == depth_from_root(nodes2, new_node)
                last2 == IF old_tip_depth < new_node_depth THEN new_node ELSE m.last
                enough_confirmed == find_prior_node(nodes2, new_node, ENOUGH_CONFIRMATION)
            IN IF enough_confirmed # NoNode /\ nodes2[enough_confirmed].prev = m.head
               THEN LET drops == stabled_drops(nodes2, m.head, enough_confirmed) IN
                    [called EXCEPT
                        !.bt_nodes = [n \in 1..Len(nodes2) |->
                                       IF n \in drops THEN [nodes2[n] EXCEPT !.freed = TRUE]
                                       ELSE IF n = enough_confirmed
                                            THEN [nodes2[n] EXCEPT !.prev = NoNode]
                                            ELSE nodes2[n]],
                        !.head = enough_confirmed,
                        !.last = last2,
                        !.len = (m.len + 1) - 1,
                        !.stable_chain = add_block(m.stable_chain, nodes2[m.head].block),
                        !.bcm_ret = Ok]
               ELSE IF enough_confirmed = NoNode \/ enough_confirmed = m.head
               THEN [called EXCEPT !.bt_nodes = nodes2, !.last = last2,
                                   !.len = m.len + 1, !.bcm_ret = Ok]
               ELSE [called EXCEPT !.bt_nodes = nodes2, !.last = last2,
                                   !.len = m.len + 1, !.bcm_panic = TRUE]

\* the BlockChainMut becomes m
MutBecomes(m) ==
    /\ bt_nodes' = m.bt_nodes
    /\ head' = m.head
    /\ last' = m.last
    /\ len' = m.len
    /\ stable_chain' = m.stable_chain
    /\ bcm_call' = m.bcm_call
    /\ bcm_ret' = m.bcm_ret
    /\ bcm_panic' = m.bcm_panic

\* a call of BlockChainMut::try_add
BlockChainMut_try_add(block) ==
    /\ ~bcm_panic
    /\ \E m \in {try_add_on(MutState, block)} : MutBecomes(m)

\* BlockChainMut::with_start
MutInit ==
    /\ bt_nodes = <<BlockTreeNode_start(StoredBlock(StartHeader))>>
    /\ head = 1
    /\ last = 1
    /\ len = 1
    /\ stable_chain = <<>>
    /\ bcm_call = StartHeader
    /\ bcm_ret = Ok
    /\ bcm_panic = FALSE

\* the hashes of the blocks the store was given so far, kept or freed
SeenHashes == {bitcoin_hash(bt_nodes[n].block) : n \in 1..Len(bt_nodes)}

\* a header that forks from the chain of the headers with nonce 0, or repeats
\* a block the store was given before
IsSide(header) ==
    \/ \E i \in 1..Len(header_bitcoin_hash(header)) : header_bitcoin_hash(header)[i] # 0
    \/ header_bitcoin_hash(header) \in SeenHashes

SideCount ==
    Cardinality({n \in 1..Len(bt_nodes) :
        \/ \E i \in 1..Len(bt_nodes[n].block.hash) : bt_nodes[n].block.hash[i] # 0
        \/ \E m \in 1..(n - 1) : bt_nodes[m].block.hash = bt_nodes[n].block.hash})

\* the headers offered to BlockChainMut: a successor of any block the store
\* was given so far (kept, stabled or freed), or of an unknown block
MutOffers ==
    {[prev_blockhash |-> p, nonce |-> x] : p \in SeenHashes \cup {NullHash}, x \in Nonces}

(***************************************************************************)
(* The Connection actor of p2p/connection.rs.                              *)
(***************************************************************************)
\* Option::None and Option::Some
None == [some |-> FALSE]
Some(x) == [some |-> TRUE, val |-> x]

\* the messages of the Bitcoin protocol the actor reads and writes
NetworkMessage_Ping(nonce) == [cmd |-> "ping", payload |-> nonce]
NetworkMessage_Pong(nonce) == [cmd |-> "pong", payload |-> nonce]
NetworkMessage_GetHeaders(locator_hashes) ==
    [cmd |-> "getheaders",
     payload |-> [locator_hashes |-> locator_hashes, hash_stop |-> NullHash]]
NetworkMessage_GetData(invs) == [cmd |-> "getdata", payload |-> invs]
NetworkMessage_GetAddr == [cmd |-> "getaddr", payload |-> <<>>]
NetworkMessage_Headers(headers) == [cmd |-> "headers", payload |-> headers]
NetworkMessage_Block(block) == [cmd |-> "block", payload |-> block]
NetworkMessage_Inv(invs) == [cmd |-> "inv", payload |-> invs]
NetworkMessage_Addr(addrs) == [cmd |-> "addr", payload |-> addrs]
NetworkMessage_Verack == [cmd |-> "verack", payload |-> <<>>]

Inventory(hash) == [inv_type |-> "Block", hash |-> hash]

\* the messages of the actor's mailbox
GetBlocksRequest(block_hashes, addr) ==
    [req |-> "GetBlocksRequest", block_hashes |-> block_hashes, addr |-> addr]
GetHeadersRequest(locator_hashes, addr) ==
    [req |-> "GetHeadersRequest", locator_hashes |-> locator_hashes, addr |-> addr]
GetAddrsRequest(addr) == [req |-> "GetAddrsRequest", addr |-> addr]
Disconnect == [req |-> "Disconnect"]
SubscribeInv(addr) == [req |-> "SubscribeInv", addr |-> addr]

\* the messages the actor sends to the recipients of the requests
BlockResponse(block) == [res |-> "BlockResponse", val |-> block]
HeadersResponse(headers) == [res |-> "HeadersResponse", val |-> headers]
PublishInv(invs) == [res |-> "PublishInv", val |-> invs]
AddrsResponse(addrs) == [res |-> "AddrsResponse", val |-> addrs]

\* a message on its way to the recipient to
Send(to, msg) == [to |-> to, msg |-> msg]

\* the future the actor's context waits for (ctx.wait): none, a write to the
\* socket, or a send to a recipient
NoWait == [kind |-> "none"]
WaitSend(msg) == [kind |-> "send", msg |-> msg]
WaitDeliver(to) == [kind |-> "deliver", to |-> to]

WaitingBlocks(addr, block_hashes) == [addr |-> addr, block_hashes |-> block_hashes]
WaitingHeaders(addr) == [addr |-> addr]

\* Connection::new, in a context that runs
Connection_new ==
    [state |-> "running", write_socket |-> TRUE, wait |-> NoWait,
     waiting_blocks |-> None, waiting_headers |-> None,
     subscribe_invs |-> None, waiting_addrs |-> None, panic |-> FALSE]

\* mutant of Ready: the context does not wait for the future given to ctx.wait
Ready_not_waiting(c) == c.state = "running" /\ ~c.panic

\* the context hands the actor a mailbox message or a stream item
Ready(c) == c.state = "running" /\ c.wait.kind = "none" /\ ~c.panic

\* what a handler leaves: the actor, and the messages it sent to recipients
Handled(c, deliver) == [conn |-> c, deliver |-> deliver]

\* Connection::send_p2p_msg
send_p2p_msg(c, msg) ==
    IF c.write_socket
    THEN [c EXCEPT !.write_socket = FALSE, !.wait = WaitSend(msg)]
    ELSE [c EXCEPT !.panic = TRUE]

\* mutant of Handler<Disconnect>: the context is not stopped
Handle_Disconnect_running(c) ==
    IF c.write_socket
    THEN [c EXCEPT !.write_socket = FALSE]
    ELSE [c EXCEPT !.panic = TRUE]

\* Handler<Disconnect>
Handle_Disconnect(c) ==
    IF c.write_socket
    THEN [c EXCEPT !.write_socket = FALSE, !.state = "stopped"]
    ELSE [c EXCEPT !.panic = TRUE]

\* mutant of stop_misbehaving_connection: the connection goes on
stop_misbehaving_connection_not(c) == c

\* Connection::stop_misbehaving_connection
stop_misbehaving_connection(c) == [c EXCEPT !.state = "stopped"]

\* Connection::handle_addr_msg
handle_addr_msg(c, addrs) ==
    IF c.waiting_addrs.some
    THEN Handled([c EXCEPT !.waiting_addrs = None],
                 <<Send(c.waiting_addrs.val, AddrsResponse(addrs))>>)
    ELSE Handled(c, <<>>)

\* mutant of position: a hash that is not found is taken for the first one
position_or_first(hashes, hash) ==
    IF \E i \in 1..Len(hashes) : hashes[i] = hash
    THEN CHOOSE i \in 1..Len(hashes) :
             /\ hashes[i] = hash
             /\ \A j \in 1..(i - 1) : hashes[j] # hash
    ELSE 1

\* Iterator::position (0 for None)
position(hashes, hash) ==
    IF \E i \in 1..Len(hashes) : hashes[i] = hash
    THEN CHOOSE i \in 1..Len(hashes) :
             /\ hashes[i] = hash
             /\ \A j \in 1..(i - 1) : hashes[j] # hash
    ELSE 0

\* mutant of remove: nothing is removed
remove_nothing(seq, idx) == seq

\* Vec::remove
remove(seq, idx) == SubSeq(seq, 1, idx - 1) \o SubSeq(seq, idx + 1, Len(seq))

\* Connection::handle_block_msg
handle_block_msg(c, block) ==
    IF c.waiting_blocks.some
    THEN LET waiting == c.waiting_blocks.val
             idx == position(waiting.block_hashes, header_bitcoin_hash(block))
         IN IF idx = 0
            THEN Handled(stop_misbehaving_connection([c EXCEPT !.waiting_blocks = None]),
                         <<>>)
            ELSE LET block_hashes == remove(waiting.block_hashes, idx) IN
                 Handled([c EXCEPT !.waiting_blocks =
                              IF block_hashes = <<>> THEN None
                              ELSE Some(WaitingBlocks(waiting.addr, block_hashes))],
                         <<Send(waiting.addr, BlockResponse(block))>>)
    ELSE Handled(c, <<>>)

\* Connection::handle_invs_msg
handle_invs_msg(c, invs) ==
    IF c.subscribe_invs.some
    THEN Handled(c, <<Send(c.subscribe_invs.val, PublishInv(invs))>>)
    ELSE Handled(c, <<>>)

\* Connection::handle_headers_msg
handle_headers_msg(c, headers) ==
    IF c.waiting_headers.some
    THEN Handled([c EXCEPT !.waiting_headers = None,
                           !.wait = WaitDeliver(c.waiting_headers.val.addr)],
                 <<Send(c.waiting_headers.val.addr, HeadersResponse(headers))>>)
    ELSE Handled(stop_misbehaving_connection(c), <<>>)

\* mutant of handle_ping_msg: the pong does not carry the nonce of the ping
handle_ping_msg_zero(c, nonce) == Handled(send_p2p_msg(c, NetworkMessage_Pong(0)), <<>>)

\* Connection::handle_ping_msg
handle_ping_msg(c, nonce) == Handled(send_p2p_msg(c, NetworkMessage_Pong(nonce)), <<>>)

\* StreamHandler<P2PMessage, Error>::handle
StreamHandler_handle(c, msg) ==
    CASE msg.cmd = "addr" -> handle_addr_msg(c, msg.payload)
      [] msg.cmd = "inv" -> handle_invs_msg(c, msg.payload)
      [] msg.cmd = "block" -> handle_block_msg(c, msg.payload)
      [] msg.cmd = "headers" -> handle_headers_msg(c, msg.payload)
      [] msg.cmd = "ping" -> handle_ping_msg(c, msg.payload)
      [] OTHER -> Handled(c, <<>>)

\* StreamHandler<P2PMessage, Error>::error
StreamHandler_error(c) == [c EXCEPT !.state = "stopped"]

\* Handler<GetBlocksRequest>
Handle_GetBlocksRequest(c, req) ==
    IF c.waiting_blocks.some THEN c
    ELSE LET invs == [i \in 1..Len(req.block_hashes) |-> Inventory(req.block_hashes[i])]
             c1 == send_p2p_msg(c, NetworkMessage_GetData(invs))
         IN IF c1.panic THEN c1
            ELSE [c1 EXCEPT !.waiting_blocks =
                      Some(WaitingBlocks(req.addr, req.block_hashes))]

\* mutant of Handler<GetHeadersRequest>: a request is taken while one is pending
Handle_GetHeadersRequest_always(c, req) ==
    LET c1 == send_p2p_msg(c, NetworkMessage_GetHeaders(req.locator_hashes)) IN
    IF c1.panic THEN c1
    ELSE [c1 EXCEPT !.waiting_headers = Some(WaitingHeaders(req.addr))]

\* Handler<GetHeadersRequest>
Handle_GetHeadersRequest(c, req) ==
    IF c.waiting_headers.some THEN c
    ELSE LET c1 == send_p2p_msg(c, NetworkMessage_GetHeaders(req.locator_hashes)) IN
         IF c1.panic THEN c1
         ELSE [c1 EXCEPT !.waiting_headers = Some(WaitingHeaders(req.addr))]

\* Handler<GetAddrsRequest>
Handle_GetAddrsRequest(c, req) ==
    LET c1 == send_p2p_msg(c, NetworkMessage_GetAddr) IN
    IF c1.panic THEN c1
    ELSE [c1 EXCEPT !.waiting_addrs = Some(req.addr)]

\* the handler of a mailbox message
Handler_handle(c, req) ==
    CASE req.req = "GetBlocksRequest" -> Handle_GetBlocksRequest(c, req)
      [] req.req = "GetHeadersRequest" -> Handle_GetHeadersRequest(c, req)
      [] req.req = "GetAddrsRequest" -> Handle_GetAddrsRequest(c, req)
      [] req.req = "Disconnect" -> Handle_Disconnect(c)

\* the event the actor handled last
Call(kind, val) == [kind |-> kind, val |-> val]

\* the actor handles the message msg of the peer
ConnHandleMsg(msg) ==
    /\ Ready(conn)
    /\ LET r == StreamHandler_handle(conn, msg) IN
       /\ conn' = r.conn
       /\ delivered' = delivered \o r.deliver
    /\ conn_call' = Call("msg", msg)
    /\ UNCHANGED wire_out

\* the actor handles the mailbox message req
ConnHandleReq(req) ==
    /\ Ready(conn)
    /\ conn' = Handler_handle(conn, req)
    /\ conn_call' = Call("req", req)
    /\ UNCHANGED <<wire_out, delivered>>

\* the write started by send_p2p_msg completes: the message is on the socket
\* and the socket is put back
ConnSendDone ==
    /\ conn.state = "running"
    /\ ~conn.panic
    /\ conn.wait.kind = "send"
    /\ wire_out' = Append(wire_out, conn.wait.msg)
    /\ conn' = [conn EXCEPT !.wait = NoWait, !.write_socket = TRUE]
    /\ conn_call' = Call("send_done", conn.wait.msg)
    /\ UNCHANGED delivered

\* the write started by send_p2p_msg fails: ctx.stop()
ConnSendFailed ==
    /\ conn.state = "running"
    /\ ~conn.panic
    /\ conn.wait.kind = "send"
    /\ conn' = [conn EXCEPT !.wait = NoWait, !.state = "stopped"]
    /\ conn_call' = Call("send_failed", conn.wait.msg)
    /\ UNCHANGED <<wire_out, delivered>>

\* the stream of the socket yields an error
ConnStreamError ==
    /\ Ready(conn)
    /\ conn' = StreamHandler_error(conn)
    /\ conn_call' = Call("error", <<>>)
    /\ UNCHANGED <<wire_out, delivered>>

\* Connection::create
ConnInit ==
    /\ conn = Connection_new
    /\ conn_call = Call("create", <<>>)
    /\ conn_events = 0
    /\ conn_mailbox = <<>>
    /\ stream_in = <<>>
    /\ wire_out = <<>>
    /\ delivered = <<>>

(***************************************************************************)
(* The SyncBlockChain actor of p2p/sync_blockchain.rs.  Its BlockChain is  *)
(* the tree (bc_nodes, active_nodes); its connection is conn.              *)
(***************************************************************************)
\* SyncBlockChain::new: blockchain is Some, the actor is not started yet
SyncBlockChain_new == [state |-> "created", wait |-> "none", blockchain |-> TRUE]

\* SyncBlockChainResult
Complete(nodes, active) == [kind |-> "Complete", nodes |-> nodes, active |-> active]
Error(nodes, active) == [kind |-> "Error", nodes |-> nodes, active |-> active]

\* the recipient of the HeadersResponse messages: the actor itself
SyncAddr == "sync"

\* SyncBlockChain::request_getheaders: the request sent to the connection
request_getheaders(nodes, active) ==
    GetHeadersRequest(locator_hashes_vec(nodes, active), SyncAddr)

\* mutant of try_add_each: the loop goes on after a header was rejected
RECURSIVE try_add_each_on(_, _, _, _)
try_add_each_on(nodes, active, call, headers) ==
    IF headers = <<>>
    THEN [nodes |-> nodes, active |-> active, ret |-> Ok, panic |-> FALSE, call |-> call]
    ELSE LET r == try_add_inner(nodes, active, Head(headers)) IN
         IF r.panic
         THEN [nodes |-> r.nodes, active |-> r.active, ret |-> r.ret,
               panic |-> r.panic, call |-> Head(headers)]
         ELSE LET rest == try_add_each_on(r.nodes, r.active, Head(headers), Tail(headers)) IN
              IF r.ret.ok THEN rest
              ELSE [rest EXCEPT !.ret = r.ret, !.call = Head(headers)]

\* the loop of Handler<HeadersResponse>: try_add of each header, up to the
\* first one that is rejected; call is the header of the last try_add
RECURSIVE try_add_each(_, _, _, _)
try_add_each(nodes, active, call, headers) ==
    IF headers = <<>>
    THEN [nodes |-> nodes, active |-> active, ret |-> Ok, panic |-> FALSE, call |-> call]
    ELSE LET r == try_add_inner(nodes, active, Head(headers)) IN
         IF r.panic \/ ~r.ret.ok
         THEN [nodes |-> r.nodes, active |-> r.active, ret |-> r.ret,
               panic |-> r.panic, call |-> Head(headers)]
         ELSE try_add_each(r.nodes, r.active, Head(headers), Tail(headers))

\* mutant of is_finish: the job is finished by a message that is not full
is_finish_not_full(headers) == Len(headers) # NUM_MAX_HEADERS_IN_MSG

\* is_finish of Handler<HeadersResponse>
is_finish(headers) == Len(headers) = NUM_MAX_HEADERS_IN_MSG

\* Actor::started
SyncStarted ==
    /\ sync.state = "created"
    /\ sync' = [sync EXCEPT !.state = "running", !.wait = "request"]
    /\ conn_mailbox' = Append(conn_mailbox, request_getheaders(bc_nodes, active_nodes))
    /\ UNCHANGED <<chainVars, notified, conn, conn_call, delivered>>

\* Handler<HeadersResponse>; the send of the connection that carried the
\* message resolves when the handler returns
SyncHandleHeaders ==
    /\ sync.state = "running"
    /\ sync.wait = "none"
    /\ sync.blockchain
    /\ ~bc_panic
    /\ delivered # <<>>
    /\ Head(delivered).to = SyncAddr
    /\ LET headers == Head(delivered).msg.val
           r == try_add_each(bc_nodes, active_nodes, bc_call, headers)
       IN /\ bc_nodes' = r.nodes
          /\ active_nodes' = r.active
          /\ bc_call' = r.call
          /\ bc_ret' = IF headers = <<>> THEN bc_ret ELSE r.ret
          /\ bc_panic' = r.panic
          /\ IF r.panic
             THEN /\ sync' = [sync EXCEPT !.state = "stopped"]
                  /\ UNCHANGED <<conn_mailbox, notified>>
             ELSE IF ~r.ret.ok
             THEN /\ conn_mailbox' = Append(conn_mailbox, Disconnect)
                  /\ notified' = Append(notified, Error(r.nodes, r.active))
                  /\ sync' = [sync EXCEPT !.blockchain = FALSE, !.wait = "notify"]
             ELSE IF is_finish(headers)
             THEN /\ notified' = Append(notified, Complete(r.nodes, r.active))
                  /\ sync' = [sync EXCEPT !.blockchain = FALSE, !.wait = "notify"]
                  /\ UNCHANGED conn_mailbox
             ELSE /\ conn_mailbox' = Append(conn_mailbox, request_getheaders(r.nodes, r.active))
                  /\ sync' = [sync EXCEPT !.wait = "request"]
                  /\ UNCHANGED notified
    /\ delivered' = Tail(delivered)
    /\ conn' = IF conn.wait.kind = "deliver" THEN [conn EXCEPT !.wait = NoWait] ELSE conn
    /\ UNCHANGED conn_call

\* the send of notify_err or notify_complete resolves: ctx.stop()
SyncNotifyDone ==
    /\ sync.state = "running"
    /\ sync.wait = "notify"
    /\ sync' = [sync EXCEPT !.state = "stopped", !.wait = "none"]
    /\ UNCHANGED <<chainVars, notified, conn, conn_call, conn_mailbox, delivered>>

\* SyncBlockChain::new, with a connection
SyncInit ==
    /\ sync = SyncBlockChain_new
    /\ notified = <<>>

(***************************************************************************)
(* The peer of a SyncBlockChain job: it holds the chain of the headers     *)
(* with nonce 0 that starts at the job's start block, peer_len headers     *)
(* long, and answers a getheaders with the headers that follow the newest  *)
(* locator hash it knows, at most NUM_MAX_HEADERS_IN_MSG of them.          *)
(***************************************************************************)
Zeros(n) == [i \in 1..n |-> 0]

\* the hash of the n-th block after the start block
PeerHash(n) == Zeros(n + 1)

\* the header of the n-th block after the start block, n >= 1
PeerHeader(n) == [prev_blockhash |-> PeerHash(n - 1), nonce |-> 0]

PeerKnows(hash) == \E n \in 0..peer_len : hash = PeerHash(n)

\* the position in the peer's chain of the newest locator hash the peer
\* knows (the locator is newest first); the start block if it knows none
PeerFork(locator_hashes) ==
    IF \E i \in 1..Len(locator_hashes) : PeerKnows(locator_hashes[i])
    THEN LET i == CHOOSE i \in 1..Len(locator_hashes) :
                      /\ PeerKnows(locator_hashes[i])
                      /\ \A j \in 1..(i - 1) : ~PeerKnows(locator_hashes[j])
         IN Len(locator_hashes[i]) - 1
    ELSE 0

PeerReply(locator_hashes) ==
    LET from == PeerFork(locator_hashes)
        left == peer_len - from
        n == IF left < NUM_MAX_HEADERS_IN_MSG THEN left ELSE NUM_MAX_HEADERS_IN_MSG
    IN [i \in 1..n |-> PeerHeader(from + i)]

\* a header whose previous block nobody knows
OrphanHeader == [prev_blockhash |-> NullHash, nonce |-> 1]

\* the headers messages a peer may send without being asked
UnsolicitedHeaders ==
    {NetworkMessage_Headers(<<>>), NetworkMessage_Headers(<<OrphanHeader>>),
     NetworkMessage_Headers(<<PeerHeader(1), OrphanHeader, PeerHeader(2)>>)}

\* the peer reads a message from the socket and answers a getheaders
PeerAnswer ==
    /\ wire_out # <<>>
    /\ wire_out' = Tail(wire_out)
    /\ stream_in' = IF Head(wire_out).cmd = "getheaders"
                    THEN Append(stream_in, NetworkMessage_Headers(
                             PeerReply(Head(wire_out).payload.locator_hashes)))
                    ELSE stream_in
    /\ UNCHANGED peer_sent

\* the peer sends a message nobody asked for
PeerUnsolicited(msg) ==
    /\ peer_sent < MaxUnsolicited
    /\ peer_sent' = peer_sent + 1
    /\ stream_in' = Append(stream_in, msg)
    /\ UNCHANGED wire_out

PeerInit ==
    /\ peer_len \in 0..MaxPeerAhead
    /\ peer_sent = 0

(***************************************************************************)
(* The socket of p2p/socket.rs.  The bytes that arrive are a sequence of   *)
(* tokens: the 24 bytes of a message header are one token, a record of the *)
(* fields decode_msg_header reads, and every byte of a payload is one.     *)
(***************************************************************************)
\* Network::magic() of the socket's network, and of another network
NetworkMagic == "bitcoin"
OtherMagic == "testnet"

\* the commands decode_and_check_msg_payload knows that carry no payload
EmptyCommands == {"verack", "mempool", "getaddr"}

\* the commands decode_and_check_msg_payload knows that carry a payload
PayloadCommands ==
    {"version", "addr", "inv", "getdata", "notfound", "getblocks", "getheaders",
     "block", "headers", "ping", "pong", "tx", "alert"}

\* sha2_checksum: the first bytes of the double SHA-256 of the data
sha2_checksum(data) == [sha2 |-> data]

\* Result of recv_msg and of its parts
NoMsg == [cmd |-> "none", payload |-> <<>>]
RecvOk(msg) == [ok |-> TRUE, msg |-> msg, err |-> "none"]
RecvErr(err) == [ok |-> FALSE, msg |-> NoMsg, err |-> err]

\* decode_msg_header: the magic is checked, the other fields are taken
decode_msg_header(src, network_magic) ==
    IF src.magic # network_magic
    THEN [ok |-> FALSE, err |-> "UnexpectedNetworkMagic", header |-> src]
    ELSE [ok |-> TRUE, err |-> "none", header |-> src]

\* ConsensusDecodable::consensus_decode of the payload of the command: an
\* integer for ping and pong, the bytes for the others; an error when the
\* bytes are too few
consensus_decode(command_name, src) ==
    IF src = <<>> THEN RecvErr("Decode")
    ELSE IF command_name \in {"ping", "pong"}
         THEN RecvOk([cmd |-> command_name, payload |-> src[1]])
         ELSE RecvOk([cmd |-> command_name, payload |-> src])

\* mutant of decode_and_check_msg_payload: the command is looked at before
\* the checksum
decode_then_check_msg_payload(src, header) ==
    IF header.command_name \in EmptyCommands
    THEN RecvOk([cmd |-> header.command_name, payload |-> <<>>])
    ELSE IF header.command_name \notin PayloadCommands
    THEN RecvErr("UnrecognizedNetworkCommand")
    ELSE IF sha2_checksum(src) # header.checksum
    THEN RecvErr("InvalidChecksum")
    ELSE consensus_decode(header.command_name, src)

\* decode_and_check_msg_payload
decode_and_check_msg_payload(src, header) ==
    IF sha2_checksum(src) # header.checksum
    THEN RecvErr("InvalidChecksum")
    ELSE IF header.command_name \in EmptyCommands
    THEN RecvOk([cmd |-> header.command_name, payload |-> <<>>])
    ELSE IF header.command_name \in PayloadCommands
    THEN consensus_decode(header.command_name, src)
    ELSE RecvErr("UnrecognizedNetworkCommand")

\* what recv_msg leaves: its result, the header it read, the tokens not
\* read, and how many payload bytes it read
Recv(res, header, rest, payload_read) ==
    [ok |-> res.ok, msg |-> res.msg, err |-> res.err, header |-> header,
     rest |-> rest, payload_read |-> payload_read]

NoHeader ==
    [magic |-> "none", command_name |-> "none", payload_size |-> 0,
     checksum |-> sha2_checksum(<<>>)]

\* Socket::recv_msg on the tokens that arrive; read_exact fails when the peer
\* has closed before the bytes asked for are there
recv_msg(stream, network_magic) ==
    IF stream = <<>> THEN Recv(RecvErr("Io"), NoHeader, <<>>, 0)
    ELSE LET h == decode_msg_header(Head(stream), network_magic) IN
         IF ~h.ok THEN Recv(RecvErr(h.err), h.header, Tail(stream), 0)
         ELSE IF Len(stream) - 1 < h.header.payload_size
         THEN Recv(RecvErr("Io"), h.header, <<>>, Len(stream) - 1)
         ELSE Recv(decode_and_check_msg_payload(
                       SubSeq(stream, 2, 1 + h.header.payload_size), h.header),
                   h.header,
                   SubSeq(stream, 2 + h.header.payload_size, Len(stream)),
                   h.header.payload_size)

\* the future of begin_handshake: where it stands, and what recv_msg gave
\* it, with the number of the messages sent before
Handshake_new == [pc |-> "send_version", recvd |-> <<>>]

Received(r, sent) == [ok |-> r.ok, msg |-> r.msg, err |-> r.err, sent |-> sent]

NetworkMessage_Version == [cmd |-> "version", payload |-> <<>>]

\* mutant of the match on the second message: any message completes the handshake
is_verack_any(r) == r.ok

\* the match on the second message of begin_handshake
is_verack(r) == r.ok /\ r.msg.cmd = "verack"

\* the match on the first message of begin_handshake
is_version(r) == r.ok /\ r.msg.cmd = "version"

\* begin_handshake: version_msg and send_msg(Version)
HsSendVersion ==
    /\ hs.pc = "send_version"
    /\ hs' = [hs EXCEPT !.pc = "recv_version"]
    /\ hs_out' = Append(hs_out, NetworkMessage_Version)
    /\ UNCHANGED <<sock_in, sock_ret>>

\* begin_handshake: version_msg or a send_msg fails
HsSendFailed ==
    /\ hs.pc \in {"send_version", "send_verack"}
    /\ hs' = [hs EXCEPT !.pc = "failed"]
    /\ UNCHANGED <<sock_in, sock_ret, hs_out>>

\* begin_handshake: recv_msg and the match on Version
HsRecvVersion ==
    /\ hs.pc = "recv_version"
    /\ LET r == recv_msg(sock_in, NetworkMagic) IN
       /\ sock_in' = r.rest
       /\ sock_ret' = r
       /\ hs' = [pc |-> IF is_version(r) THEN "send_verack" ELSE "failed",
                 recvd |-> Append(hs.recvd, Received(r, Len(hs_out)))]
    /\ UNCHANGED hs_out

\* begin_handshake: check_remote_version_msg and send_msg(Verack)
HsSendVerack ==
    /\ hs.pc = "send_verack"
    /\ hs' = [hs EXCEPT !.pc = "recv_verack"]
    /\ hs_out' = Append(hs_out, NetworkMessage_Verack)
    /\ UNCHANGED <<sock_in, sock_ret>>

\* begin_handshake: recv_msg and the match on Verack; "done" is Ok(HandshakedSocket)
HsRecvVerack ==
    /\ hs.pc = "recv_verack"
    /\ LET r == recv_msg(sock_in, NetworkMagic) IN
       /\ sock_in' = r.rest
       /\ sock_ret' = r
       /\ hs' = [pc |-> IF is_verack(r) THEN "done" ELSE "failed",
                 recvd |-> Append(hs.recvd, Received(r, Len(hs_out)))]
    /\ UNCHANGED hs_out

\* the item of recv_msg_stream the Connection takes next: a message goes to
\* StreamHandler::handle, an error to StreamHandler::error
StreamRecv ==
    /\ hs.pc = "done"
    /\ Ready(conn)
    /\ LET r == recv_msg(sock_in, NetworkMagic) IN
       /\ sock_in' = r.rest
       /\ sock_ret' = r
       /\ IF r.ok THEN ConnHandleMsg(r.msg) ELSE ConnStreamError
    /\ UNCHANGED <<hs, hs_out>>

\* Socket::new
SockInit ==
    /\ hs = Handshake_new
    /\ hs_out = <<>>
    /\ sock_ret = Recv(RecvErr("none"), NoHeader, <<>>, 0)

\* the tokens of a frame
Frame(magic, command_name, payload, checksum) ==
    <<[magic |-> magic, command_name |-> command_name,
       payload_size |-> Len(payload), checksum |-> checksum]>> \o payload

\* the frames a peer may send: well formed ones, and ones that fail one or
\* several checks of recv_msg
PeerFrames ==
    {Frame(NetworkMagic, "version", <<7>>, sha2_checksum(<<7>>)),
     Frame(NetworkMagic, "verack", <<>>, sha2_checksum(<<>>)),
     Frame(NetworkMagic, "ping", <<1>>, sha2_checksum(<<1>>)),
     Frame(NetworkMagic, "ping", <<>>, sha2_checksum(<<>>)),
     Frame(NetworkMagic, "ping", <<1>>, sha2_checksum(<<0>>)),
     Frame(NetworkMagic, "sendheaders", <<>>, sha2_checksum(<<>>)),
     Frame(NetworkMagic, "sendheaders", <<1>>, sha2_checksum(<<0>>)),
     Frame(OtherMagic, "verack", <<>>, sha2_checksum(<<>>)),
     Frame(OtherMagic, "sendheaders", <<1>>, sha2_checksum(<<0>>))}

\* the frames of the peer one after the other, up to n of them
RECURSIVE PeerStreams(_)
PeerStreams(n) ==
    IF n = 0 THEN {<<>>}
    ELSE PeerStreams(n - 1)
         \cup {f \o s : f \in PeerFrames, s \in PeerStreams(n - 1)}

(***************************************************************************)
(* The futures of peer/peer.rs over the Connection of peer/connection.rs.  *)
(* The socket's inbound messages are stream_in, its outbound ones          *)
(* wire_out; the BlockChain of sync_blockchain is (bc_nodes, active_nodes). *)
(***************************************************************************)
\* MAX_BLOCKS_IN_MSG: 500 in peer/peer.rs, scaled down here
MAX_BLOCKS_IN_MSG == 2

\* MAX_HEADERS_IN_MSG: 2000 in peer/peer.rs, scaled like NUM_MAX_HEADERS_IN_MSG
MAX_HEADERS_IN_MSG == NUM_MAX_HEADERS_IN_MSG

\* Peer::new
Peer_new == [unexpected_invs |-> <<>>, peer_address |-> <<>>]

\* Result of a future
JobOk(val) == [ok |-> TRUE, val |-> val]
JobErr(kind) == [ok |-> FALSE, err |-> kind]

\* no future is running; arg is the argument of the call, sent the messages
\* written to the socket since and got the messages recv_msg handed to
\* listen_single_process since
Job_new ==
    [op |-> "none", pc |-> "idle", out |-> NoMsg, next |-> "idle", peer |-> Peer_new,
     arg |-> <<>>, req_blocks |-> <<>>, rmn_blocks |-> <<>>, full_blocks_buf |-> <<>>,
     block_hashes |-> <<>>, blocks_buf |-> <<>>, n_req_blocks |-> 0, sent |-> <<>>,
     got |-> <<>>]

\* Connection::send_msg / AsyncSocket::send_msg: the write is started, the
\* future goes on at next when it completes
Job_send(j, msg, next) == [j EXCEPT !.pc = "send", !.out = msg, !.next = next]

\* the future resolved
Job_done(j) == [j EXCEPT !.pc = "done", !.out = NoMsg, !.next = "done"]

\* the states in which the future waits in Connection::recv_msg
RecvPcs == {"recv_headers", "recv_blocks", "recv_inv", "wait_recv_headers", "wait_recv_blocks"}

\* the messages Connection::recv_msg hands on as IncomingMessage
Incoming == {"headers", "block", "inv", "addr"}

\* the write of a message completes
JobSent ==
    /\ job.pc = "send"
    /\ wire_out' = Append(wire_out, job.out)
    /\ job' = [job EXCEPT !.pc = job.next, !.out = NoMsg, !.sent = Append(@, job.out)]
    /\ UNCHANGED <<job_ret, stream_in>>

\* the write of a message fails: the future resolves with the io error
JobSendFailed ==
    /\ job.pc = "send"
    /\ job' = Job_done(job)
    /\ job_ret' = Some(JobErr("Io"))
    /\ UNCHANGED <<wire_out, stream_in>>

\* Connection::recv_msg reads a ping: pong is sent and the loop goes on
ConnectionRecvPing ==
    /\ job.pc \in RecvPcs
    /\ stream_in # <<>>
    /\ Head(stream_in).cmd = "ping"
    /\ stream_in' = Tail(stream_in)
    /\ job' = Job_send(job, NetworkMessage_Pong(Head(stream_in).payload), job.pc)
    /\ UNCHANGED <<job_ret, wire_out>>

\* Connection::recv_msg reads a message it discards
ConnectionRecvDiscard ==
    /\ job.pc \in RecvPcs
    /\ stream_in # <<>>
    /\ Head(stream_in).cmd \notin Incoming \cup {"ping"}
    /\ stream_in' = Tail(stream_in)
    /\ UNCHANGED <<job, job_ret, wire_out>>

\* Peer::sync_blockchain is called: the first round of its loop sends getheaders
SyncBlockchainCall ==
    /\ job.pc = "idle"
    /\ ~bc_panic
    /\ job' = Job_send([job EXCEPT !.op = "sync_blockchain"],
                       NetworkMessage_GetHeaders(locator_hashes_vec(bc_nodes, active_nodes)),
                       "recv_headers")
    /\ UNCHANGED <<job_ret, chainVars, stream_in, wire_out>>

\* recv_headers of peer/peer.rs reads an inv or an addr: it is kept in the
\* Peer and the loop goes on
RecvHeadersKept ==
    /\ job.op = "sync_blockchain"
    /\ job.pc = "recv_headers"
    /\ stream_in # <<>>
    /\ Head(stream_in).cmd \in {"inv", "addr"}
    /\ stream_in' = Tail(stream_in)
    /\ job' = IF Head(stream_in).cmd = "inv"
              THEN [job EXCEPT !.peer.unexpected_invs = @ \o Head(stream_in).payload]
              ELSE [job EXCEPT !.peer.peer_address = @ \o Head(stream_in).payload]
    /\ UNCHANGED <<job_ret, chainVars, wire_out>>

\* recv_headers reads a block: the peer misbehaves
RecvHeadersBlock ==
    /\ job.op = "sync_blockchain"
    /\ job.pc = "recv_headers"
    /\ stream_in # <<>>
    /\ Head(stream_in).cmd = "block"
    /\ stream_in' = Tail(stream_in)
    /\ job' = Job_done(job)
    /\ job_ret' = Some(JobErr("MisbehaviorPeer"))
    /\ UNCHANGED <<chainVars, wire_out>>

\* recv_headers reads the headers; getheaders checks that there are some;
\* the closure of sync_blockchain adds them and breaks or continues the loop
SyncBlockchainHeaders ==
    /\ job.op = "sync_blockchain"
    /\ job.pc = "recv_headers"
    /\ stream_in # <<>>
    /\ Head(stream_in).cmd = "headers"
    /\ stream_in' = Tail(stream_in)
    /\ UNCHANGED wire_out
    /\ LET headers == Head(stream_in).payload IN
       IF headers = <<>>
       THEN /\ job' = Job_done(job)
            /\ job_ret' = Some(JobErr("MisbehaviorPeer"))
            /\ UNCHANGED chainVars
       ELSE LET is_completed == Len(headers) # MAX_HEADERS_IN_MSG
                r == try_add_each(bc_nodes, active_nodes, bc_call, headers)
            IN /\ bc_nodes' = r.nodes
               /\ active_nodes' = r.active
               /\ bc_call' = r.call
               /\ bc_ret' = r.ret
               /\ bc_panic' = r.panic
               /\ IF r.panic
                  THEN /\ job' = Job_done(job)
                       /\ job_ret' = Some(JobErr("panic"))
                  ELSE IF ~r.ret.ok
                  THEN /\ job' = Job_done(job)
                       /\ job_ret' = Some(JobErr("MisbehaviorPeer"))
                  ELSE IF is_completed
                  THEN /\ job' = Job_done(job)
                       /\ job_ret' = Some(JobOk("blockchain"))
                  ELSE /\ job' = Job_send(job,
                                   NetworkMessage_GetHeaders(
                                       locator_hashes_vec(r.nodes, r.active)),
                                   "recv_headers")
                       /\ UNCHANGED job_ret

\* FullBlockData::new
FullBlockData(block, height) == [block |-> block, height |-> height]

\* Iterator::zip: the shorter length decides
Zip(a, b) == [i \in 1..(IF Len(a) < Len(b) THEN Len(a) ELSE Len(b)) |-> <<a[i], b[i]>>]

\* request_getblocks: the getdata message for the hashes
request_getblocks(block_hashes) ==
    NetworkMessage_GetData([i \in 1..Len(block_hashes) |-> Inventory(block_hashes[i])])

\* mutant of is_expected_blocks: every block passes
is_expected_blocks_any(blocks, block_hashes) == TRUE

\* is_expected_blocks of getblocks: the blocks received have the hashes
\* asked for, pairwise
is_expected_blocks(blocks, block_hashes) ==
    \A i \in 1..Len(Zip(blocks, block_hashes)) :
        header_bitcoin_hash(Zip(blocks, block_hashes)[i][1]) = Zip(blocks, block_hashes)[i][2]

\* a round of the loop of download_full_blocks: the next batch is split off
\* req_blocks and getblocks sends the getdata for it
download_round(j, req_blocks, full_blocks_buf) ==
    LET n_req_blocks == IF Len(req_blocks) < MAX_BLOCKS_IN_MSG
                        THEN Len(req_blocks) ELSE MAX_BLOCKS_IN_MSG
        rmn_blocks == SubSeq(req_blocks, n_req_blocks + 1, Len(req_blocks))
        batch == SubSeq(req_blocks, 1, n_req_blocks)
        req_blocks_hashes == [i \in 1..Len(batch) |-> bitcoin_hash(batch[i])]
    IN Job_send([j EXCEPT !.req_blocks = batch,
                          !.rmn_blocks = rmn_blocks,
                          !.full_blocks_buf = full_blocks_buf,
                          !.block_hashes = req_blocks_hashes,
                          !.blocks_buf = <<>>,
                          !.n_req_blocks = Len(req_blocks_hashes)],
                request_getblocks(req_blocks_hashes), "recv_blocks")

\* Peer::download_full_blocks is called
DownloadFullBlocksCall(req_blocks) ==
    /\ job.pc = "idle"
    /\ job' = download_round([job EXCEPT !.op = "download_full_blocks", !.arg = req_blocks],
                             req_blocks, <<>>)
    /\ UNCHANGED <<job_ret, stream_in, wire_out>>

\* recv_blocks reads an inv or an addr: it is kept in the Peer and the loop
\* goes on
RecvBlocksKept ==
    /\ job.op = "download_full_blocks"
    /\ job.pc = "recv_blocks"
    /\ stream_in # <<>>
    /\ Head(stream_in).cmd \in {"inv", "addr"}
    /\ stream_in' = Tail(stream_in)
    /\ job' = IF Head(stream_in).cmd = "inv"
              THEN [job EXCEPT !.peer.unexpected_invs = @ \o Head(stream_in).payload]
              ELSE [job EXCEPT !.peer.peer_address = @ \o Head(stream_in).payload]
    /\ UNCHANGED <<job_ret, wire_out>>

\* recv_blocks reads headers: the peer misbehaves
RecvBlocksHeaders ==
    /\ job.op = "download_full_blocks"
    /\ job.pc = "recv_blocks"
    /\ stream_in # <<>>
    /\ Head(stream_in).cmd = "headers"
    /\ stream_in' = Tail(stream_in)
    /\ job' = Job_done(job)
    /\ job_ret' = Some(JobErr("MisbehaviorPeer"))
    /\ UNCHANGED wire_out

\* recv_blocks reads a block.  n_req_blocks - 1 on a count of 0 (an empty
\* batch) panics in a build with overflow checks and wraps in one without:
\* a negative count n stands for the wrapped 2^64 + n.  With the last block
\* of the batch getblocks compares the hashes, and the closure of
\* download_full_blocks pairs the blocks with the heights and breaks or
\* continues its loop.
DownloadFullBlocksBlock ==
    /\ job.op = "download_full_blocks"
    /\ job.pc = "recv_blocks"
    /\ stream_in # <<>>
    /\ Head(stream_in).cmd = "block"
    /\ stream_in' = Tail(stream_in)
    /\ UNCHANGED wire_out
    /\ LET blocks_buf == Append(job.blocks_buf, Head(stream_in).payload)
           n_rmn_blocks == job.n_req_blocks - 1
       IN IF job.n_req_blocks = 0
          THEN \/ /\ job' = Job_done(job)
                  /\ job_ret' = Some(JobErr("panic"))
               \/ /\ job' = [job EXCEPT !.blocks_buf = blocks_buf,
                                        !.n_req_blocks = n_rmn_blocks]
                  /\ UNCHANGED job_ret
          ELSE IF n_rmn_blocks # 0
          THEN /\ job' = [job EXCEPT !.blocks_buf = blocks_buf,
                                     !.n_req_blocks = n_rmn_blocks]
               /\ UNCHANGED job_ret
          ELSE IF ~is_expected_blocks(blocks_buf, job.block_hashes)
          THEN /\ job' = Job_done(job)
               /\ job_ret' = Some(JobErr("MisbehaviorPeer"))
          ELSE LET pairs == Zip(blocks_buf, job.req_blocks)
                   full_blocks_buf ==
                       job.full_blocks_buf \o
                       [i \in 1..Len(pairs) |->
                            FullBlockData(pairs[i][1], pairs[i][2].height)]
               IN IF job.rmn_blocks = <<>>
                  THEN /\ job' = Job_done([job EXCEPT !.full_blocks_buf = full_blocks_buf,
                                                      !.blocks_buf = blocks_buf])
                       /\ job_ret' = Some(JobOk(full_blocks_buf))
                  ELSE /\ job' = download_round(job, job.rmn_blocks, full_blocks_buf)
                       /\ UNCHANGED job_ret

\* the block of the peer's chain that has the hash
PeerBlock(hash) == PeerHeader(Len(hash) - 1)

\* the peer reads a message from the socket; to a getdata it sends the blocks
\* asked for, in the order of the request or in the reverse order
PeerServe ==
    /\ wire_out # <<>>
    /\ wire_out' = Tail(wire_out)
    /\ IF Head(wire_out).cmd = "getdata"
       THEN LET invs == Head(wire_out).payload
                blocks == [i \in 1..Len(invs) |->
                               NetworkMessage_Block(PeerBlock(invs[i].hash))]
            IN \/ stream_in' = stream_in \o blocks
               \/ stream_in' = stream_in \o Reverse(blocks)
       ELSE stream_in' = stream_in
    /\ UNCHANGED peer_sent

\* BlockChainMut::locator_blocks of the BlockChainMut, and their hashes
BlockChainMut_locator_blocks == Take(Reverse(BlockChainMut_iter), 10)

BlockChainMut_locator_hashes ==
    [i \in 1..Len(BlockChainMut_locator_blocks) |->
         bitcoin_hash(BlockChainMut_locator_blocks[i])]

\* mutant of try_add_all_on: a rejected header is skipped
RECURSIVE try_add_all_on_skipping(_, _)
try_add_all_on_skipping(m, headers) ==
    IF headers = <<>> \/ m.bcm_panic THEN m
    ELSE LET m2 == try_add_on(m, StoredBlock(Head(headers))) IN
         try_add_all_on_skipping([m2 EXCEPT !.bcm_ret = Ok], Tail(headers))

\* the loop of listen_single_process over the headers: each is given to
\* block_chain.try_add, up to the first that is rejected
RECURSIVE try_add_all_on(_, _)
try_add_all_on(m, headers) ==
    IF headers = <<>> THEN m
    ELSE LET m2 == try_add_on(m, StoredBlock(Head(headers))) IN
         IF m2.bcm_panic \/ ~m2.bcm_ret.ok THEN m2
         ELSE try_add_all_on(m2, Tail(headers))

\* listen_single_process is called, by listen_new_block at first and again
\* after each step that resolved with Ok: the locator is taken and the
\* future waits for a message
ListenSingleProcessCall ==
    /\ \/ job.pc = "idle"
       \/ job.op = "listen" /\ job.pc = "done" /\ job_ret.some /\ job_ret.val.ok
    /\ ~bcm_panic
    /\ job' = [Job_new EXCEPT !.op = "listen", !.pc = "recv_inv",
                              !.arg = BlockChainMut_locator_hashes]
    /\ job_ret' = None
    /\ UNCHANGED <<mutVars, stream_in, wire_out>>

\* the first message of the step: after an inv getheaders sends the locator;
\* headers or a block are a misbehavior.  (The match of listen.rs has no
\* arm for Addr.)
ListenFirst ==
    /\ job.op = "listen"
    /\ job.pc = "recv_inv"
    /\ stream_in # <<>>
    /\ Head(stream_in).cmd \in {"inv", "headers", "block"}
    /\ stream_in' = Tail(stream_in)
    /\ UNCHANGED <<mutVars, wire_out>>
    /\ LET j == [job EXCEPT !.got = Append(@, Head(stream_in))] IN
       IF Head(stream_in).cmd = "inv"
       THEN /\ job' = Job_send(j, NetworkMessage_GetHeaders(job.arg), "wait_recv_headers")
            /\ UNCHANGED job_ret
       ELSE /\ job' = Job_done(j)
            /\ job_ret' = Some(JobErr("MisbehaviorPeer"))

\* wait_recv_headers of process/process.rs reads a message.  Headers: getheaders
\* checks that there are some, listen_single_process gives each to try_add
\* and getblocks sends the getdata for their hashes.  Any other message is a
\* misbehavior.
ListenHeaders ==
    /\ job.op = "listen"
    /\ job.pc = "wait_recv_headers"
    /\ stream_in # <<>>
    /\ Head(stream_in).cmd \in Incoming
    /\ stream_in' = Tail(stream_in)
    /\ UNCHANGED wire_out
    /\ LET j == [job EXCEPT !.got = Append(@, Head(stream_in))]
           headers == Head(stream_in).payload
       IN IF Head(stream_in).cmd # "headers" \/ headers = <<>>
          THEN /\ job' = Job_done(j)
               /\ job_ret' = Some(JobErr("Misbehavior"))
               /\ UNCHANGED mutVars
          ELSE \E m \in {try_add_all_on(MutState, headers)} :
               /\ MutBecomes(m)
               /\ IF m.bcm_panic
                  THEN /\ job' = Job_done(j)
                       /\ job_ret' = Some(JobErr("panic"))
                  ELSE IF ~m.bcm_ret.ok
                  THEN /\ job' = Job_done(j)
                       /\ job_ret' = Some(JobErr("MisbehaviorPeer"))
                  ELSE LET hashes == [i \in 1..Len(headers) |->
                                          header_bitcoin_hash(headers[i])]
                       IN /\ job' = Job_send([j EXCEPT !.block_hashes = hashes,
                                                       !.blocks_buf = <<>>,
                                                       !.n_req_blocks = Len(hashes)],
                                             request_getblocks(hashes), "wait_recv_blocks")
                          /\ UNCHANGED job_ret

\* wait_recv_blocks of process/process.rs reads a message.  A block is kept
\* (n_req_blocks - 1 on a count of 0 panics or wraps, as in recv_blocks); with
\* the last one getblocks compares the hashes and the step resolves.  Any
\* other message is a misbehavior.
ListenBlocks ==
    /\ job.op = "listen"
    /\ job.pc = "wait_recv_blocks"
    /\ stream_in # <<>>
    /\ Head(stream_in).cmd \in Incoming
    /\ stream_in' = Tail(stream_in)
    /\ UNCHANGED <<mutVars, wire_out>>
    /\ LET j == [job EXCEPT !.got = Append(@, Head(stream_in))]
           blocks_buf == Append(job.blocks_buf, Head(stream_in).payload)
           n_rmn_blocks == job.n_req_blocks - 1
       IN IF Head(stream_in).cmd # "block"
          THEN /\ job' = Job_done(j)
               /\ job_ret' = Some(JobErr("Misbehavior"))
          ELSE IF job.n_req_blocks = 0
          THEN \/ /\ job' = Job_done(j)
                  /\ job_ret' = Some(JobErr("panic"))
               \/ /\ job' = [j EXCEPT !.blocks_buf = blocks_buf,
                                      !.n_req_blocks = n_rmn_blocks]
                  /\ UNCHANGED job_ret
          ELSE IF n_rmn_blocks # 0
          THEN /\ job' = [j EXCEPT !.blocks_buf = blocks_buf,
                                   !.n_req_blocks = n_rmn_blocks]
               /\ UNCHANGED job_ret
          ELSE IF ~is_expected_blocks(blocks_buf, job.block_hashes)
          THEN /\ job' = Job_done(j)
               /\ job_ret' = Some(JobErr("Misbehavior"))
          ELSE /\ job' = Job_done([j EXCEPT !.blocks_buf = blocks_buf])
               /\ job_ret' = Some(JobOk(blocks_buf))

\* a write of the step fails: the pong of the first recv_msg resolves the
\* step with the io error, request_getheaders, request_getblocks and the
\* wait_recv functions map it to ConnectionError
ListenSendFailed ==
    /\ job.op = "listen"
    /\ job.pc = "send"
    /\ job' = Job_done(job)
    /\ job_ret' = Some(JobErr(IF job.next = "recv_inv" THEN "Io" ELSE "ConnectionError"))
    /\ UNCHANGED <<mutVars, stream_in, wire_out>>

\* the headers a peer may answer a getheaders with: those that follow the
\* locator in its chain, or headers with one of an unknown block among them
ListenReplies(locator_hashes) ==
    {PeerReply(locator_hashes), <<OrphanHeader>>,
     <<PeerHeader(PeerFork(locator_hashes) + 1), OrphanHeader>>}

\* the peer of the listener reads a message from the socket: it answers a
\* getheaders with headers and a getdata with the blocks, in the order of the
\* request or in the reverse order
ListenPeerServe ==
    /\ wire_out # <<>>
    /\ wire_out' = Tail(wire_out)
    /\ IF Head(wire_out).cmd = "getheaders"
       THEN \E reply \in ListenReplies(Head(wire_out).payload.locator_hashes) :
                stream_in' = Append(stream_in, NetworkMessage_Headers(reply))
       ELSE IF Head(wire_out).cmd = "getdata"
       THEN LET invs == Head(wire_out).payload
                blocks == [i \in 1..Len(invs) |->
                               NetworkMessage_Block(PeerBlock(invs[i].hash))]
            IN \/ stream_in' = stream_in \o blocks
               \/ stream_in' = stream_in \o Reverse(blocks)
       ELSE stream_in' = stream_in
    /\ UNCHANGED peer_sent

\* the messages the peer of the listener sends without being asked: the
\* announcement of a block as inv, as headers or as the block, or others
ListenAnnounces ==
    {NetworkMessage_Inv(<<Inventory(PeerHash(1))>>),
     NetworkMessage_Headers(<<PeerHeader(1)>>),
     NetworkMessage_Block(PeerHeader(1)),
     NetworkMessage_Ping(1), NetworkMessage_Verack}

ListenPeerSends ==
    /\ peer_sent < MaxListenSent
    /\ peer_sent' = peer_sent + 1
    /\ \E msg \in ListenAnnounces : stream_in' = Append(stream_in, msg)
    /\ UNCHANGED wire_out

(***************************************************************************)
(* Node of node.rs and the channels of its subscribers.                    *)
(***************************************************************************)
\* Node::new; n_recv counts the calls of recv_block, ret is what the last
\* one returned
FullNode_new == [subscribers |-> <<>>, n_recv |-> 0, ret |-> None]

\* std::sync::mpsc::sync_channel: the receiver is held; got holds the
\* snapshots the last recv_block sent into the channel
sync_channel == [open |-> TRUE, got |-> <<>>]

\* BlockChainMut::freeze on the BlockChainMut m: the blocks of iter()
BlockChainMut_freeze(m) == m.stable_chain \o UnstableBlockChain_iter(m.bt_nodes, m.last)

\* mutant of swap_remove: the last element is removed whatever idx is
swap_remove_last(v, idx) == SubSeq(v, 1, Len(v) - 1)

\* Vec::swap_remove: the element at idx (counted from 0) is removed and the
\* last element takes its place
swap_remove(v, idx) ==
    IF idx + 1 = Len(v)
    THEN SubSeq(v, 1, Len(v) - 1)
    ELSE [SubSeq(v, 1, Len(v) - 1) EXCEPT ![idx + 1] = v[Len(v)]]

\* SyncSender::send: Err once the receiver was dropped
SyncSender_send(chs, subscriber) == IF chs[subscriber].open THEN Ok ELSE None

RECURSIVE inner(_, _, _, _)
\* inner of publish_current_blockchain: the subscribers and the channels
\* after the snapshot was offered to the subscribers from idx on
inner(subscribers, chs, idx, blockchain) ==
    IF Len(subscribers) = idx
    THEN [subscribers |-> subscribers, chans |-> chs]
    ELSE LET subscriber == subscribers[idx + 1]
             send_result == SyncSender_send(chs, subscriber)
         IN IF send_result = Ok
            THEN inner(subscribers,
                       [chs EXCEPT ![subscriber].got = Append(@, blockchain)],
                       idx + 1, blockchain)
            ELSE inner(swap_remove(subscribers, idx), chs, idx, blockchain)

\* Node::publish_current_blockchain for the BlockChainMut m
publish_current_blockchain(subscribers, chs, m) ==
    inner(subscribers, chs, 0, BlockChainMut_freeze(m))

\* a caller makes a channel and gives its sender to Node::add_subscriber
Node_add_subscriber ==
    /\ Len(chans) < MaxSubscribers
    /\ chans' = Append(chans, sync_channel)
    /\ full_node' = [full_node EXCEPT !.subscribers = Append(@, Len(chans) + 1)]

\* the receiver of a channel is dropped
ReceiverDropped ==
    \E c \in 1..Len(chans) :
        /\ chans[c].open
        /\ chans' = [chans EXCEPT ![c].open = FALSE]
        /\ UNCHANGED full_node

\* Node::recv_block
Node_recv_block(block) ==
    /\ ~bcm_panic
    /\ \E m \in {try_add_on(MutState, block)} :
          /\ MutBecomes(m)
          /\ LET unread == [c \in 1..Len(chans) |-> [chans[c] EXCEPT !.got = <<>>]] IN
             IF m.bcm_panic
             THEN UNCHANGED <<full_node, chans>>
             ELSE IF m.bcm_ret = Ok
             THEN \E r \in {publish_current_blockchain(full_node.subscribers, unread, m)} :
                     /\ full_node' = [subscribers |-> r.subscribers,
                                 n_recv |-> full_node.n_recv + 1, ret |-> Some("Ack")]
                     /\ chans' = r.chans
             ELSE /\ full_node' = [full_node EXCEPT !.n_recv = @ + 1, !.ret = Some("Ban")]
                  /\ chans' = unread

NodeIdle == full_node = FullNode_new /\ chans = <<>>

(***************************************************************************)
(* BlockAssociatedDataManager of blockchain/data_manager.rs.               *)
(***************************************************************************)
\* usize arithmetic is modulo 2^64; the modulus is scaled down here, far
\* above every height and length of the model
USIZE_MODULUS == 65536

\* BlockAssociatedData::new: the block is kept as its height
BlockAssociatedData_new(height, data) == [height |-> height, data |-> data]

\* BlockAssociatedDataManager::new.  overflow_checks is the build: whether
\* an overflowing usize subtraction panics or wraps.  n_calls counts the
\* calls of update and pop, call is the last one with the datas before it
BlockAssociatedDataManager_new(overflow_checks) ==
    [datas |-> <<>>, overflow_checks |-> overflow_checks, panic |-> FALSE,
     n_calls |-> 0, call |-> None]

\* BlockAssociatedDataManager::minimum_height
minimum_height(datas) == IF datas = <<>> THEN 0 ELSE datas[1].height

\* BlockAssociatedDataManager::get_data_by_height
get_data_by_height(datas, height) ==
    IF datas = <<>> THEN None
    ELSE LET start_height == datas[1].height IN
         IF height < start_height THEN None
         ELSE LET idx == height - start_height IN
              IF idx < Len(datas) THEN Some(datas[idx + 1]) ELSE None

\* a - b on usize in a build without overflow checks
wrapping_sub(a, b) == (a - b) % USIZE_MODULUS

\* VecDeque::truncate: nothing happens when n is not below the length
truncate(v, n) == IF n >= Len(v) THEN v ELSE SubSeq(v, 1, n)

\* BlockAssociatedDataManager::update on the manager d
update_on(d, datas) ==
    LET called == [d EXCEPT !.n_calls = @ + 1,
                            !.call = Some([op |-> "update", arg |-> datas, before |-> d.datas])]
    IN
       IF datas = <<>>
       THEN [called EXCEPT !.panic = TRUE]
       ELSE IF d.datas = <<>>
       THEN [called EXCEPT !.datas = datas]
       ELSE LET current_minimum_height == minimum_height(d.datas)
                current_maximum_height == d.datas[Len(d.datas)].height
                new_minimum_height == datas[1].height
            IN IF ~(new_minimum_height <= current_maximum_height + 1)
               THEN [called EXCEPT !.panic = TRUE]
               ELSE IF new_minimum_height < current_minimum_height /\ d.overflow_checks
               THEN [called EXCEPT !.panic = TRUE]
               ELSE [called EXCEPT !.datas =
                        truncate(d.datas,
                                 wrapping_sub(new_minimum_height, current_minimum_height))
                        \o datas]

\* a call of BlockAssociatedDataManager::update
BlockAssociatedDataManager_update(datas) ==
    /\ ~dm.panic
    /\ dm' = update_on(dm, datas)

\* a call of BlockAssociatedDataManager::pop
BlockAssociatedDataManager_pop ==
    /\ ~dm.panic
    /\ dm' = [dm EXCEPT !.datas = IF @ = <<>> THEN <<>> ELSE Tail(@),
                        !.n_calls = @ + 1,
                        !.call = Some([op |-> "pop", arg |-> <<>>, before |-> dm.datas])]

DmIdle == dm = BlockAssociatedDataManager_new(TRUE)

(***************************************************************************)
(* download_blocks of process/ibd.rs.                                      *)
(***************************************************************************)
\* DL_AT_ONCE_MAX of request_getblocks; download_blocks compares with 16 too
DL_AT_ONCE_MAX == 16

\* the future of download_blocks on a chain of n header-only blocks, not yet
\* polled.  header_only[i] tells whether the i-th block of blockchain.iter()
\* is header only; the hash of a block is its index.  n_invs is the
\* n_req_blocks of the closure of download_blocks, n_req_blocks the state of
\* the loop of wait_recv_blocks_and_apply, sent the getdata messages sent,
\* wire the getdata the peer has not read, stream the blocks it sent
Ibd_new(n) ==
    [pc |-> "request_getblocks", header_only |-> [i \in 1..n |-> TRUE],
     n_invs |-> 0, n_req_blocks |-> 0, sent |-> <<>>, wire |-> <<>>, stream |-> <<>>,
     ret |-> None]

\* the indices n, n - 1, .., 1
RECURSIVE RevIndices(_)
RevIndices(n) == IF n = 0 THEN <<>> ELSE <<n>> \o RevIndices(n - 1)

\* request_getblocks: the inventories of the newest header-only blocks, at
\* most DL_AT_ONCE_MAX of them
getblocks_invs(header_only) ==
    LET found == SelectSeq(RevIndices(Len(header_only)), LAMBDA i : header_only[i])
    IN SubSeq(found, 1, IF Len(found) < DL_AT_ONCE_MAX THEN Len(found) ELSE DL_AT_ONCE_MAX)

\* request_getblocks, the getdata was sent
IbdRequestGetblocks ==
    /\ ibd.pc = "request_getblocks"
    /\ LET invs == getblocks_invs(ibd.header_only)
           n_invs == Len(invs)
       IN ibd' = [ibd EXCEPT !.pc = "wait_recv_blocks_and_apply",
                             !.n_invs = n_invs, !.n_req_blocks = n_invs,
                             !.sent = Append(@, invs), !.wire = Append(@, invs)]

\* request_getblocks, send_msg failed
IbdSendFailed ==
    /\ ibd.pc = "request_getblocks"
    /\ ibd' = [ibd EXCEPT !.pc = "done", !.ret = Some("Err")]

\* one turn of the loop of wait_recv_blocks_and_apply: a block was read.
\* After the Break the closure of download_blocks goes on or ends
IbdRecvBlock ==
    /\ ibd.pc = "wait_recv_blocks_and_apply"
    /\ ibd.stream # <<>>
    /\ LET block == Head(ibd.stream)
           is_found == block \in 1..Len(ibd.header_only)
           read == [ibd EXCEPT !.stream = Tail(@)]
       IN IF is_found
          THEN LET applied == [read EXCEPT !.header_only[block] = FALSE] IN
               IF ibd.n_req_blocks = 1
               THEN IF ibd.n_invs = 16
                    THEN ibd' = [applied EXCEPT !.pc = "request_getblocks"]
                    ELSE ibd' = [applied EXCEPT !.pc = "done", !.ret = Some("Ok")]
               ELSE ibd' = [applied EXCEPT !.n_req_blocks = (@ - 1) % USIZE_MODULUS]
          ELSE ibd' = [read EXCEPT !.pc = "done", !.ret = Some("Err")]

\* the peer reads a getdata and sends every block it asks for
IbdPeerServe ==
    /\ ibd.wire # <<>>
    /\ ibd' = [ibd EXCEPT !.wire = Tail(@), !.stream = @ \o Head(ibd.wire)]

IbdIdle == ibd = Ibd_new(0)

(***************************************************************************)
(* Connection of connection/connection.rs: ConnectionInner behind a Mutex, *)
(* a thread that calls getheaders and the task of recv_process.            *)
(***************************************************************************)
\* Connection::new.  lock is the holder of the Mutex; pc, tx, n_calls, ret
\* and rx belong to the caller of getheaders: where it is, the oneshot
\* channel of its call, the calls it made, what the last one returned and
\* what came out of its Receiver; wire holds the getheaders the peer has not
\* read, stream the messages of the peer not yet handled, pongs the pongs
\* sent, recv_ret what the future of recv_process resolved with
MxConnection_new ==
    [lock |-> "free", waiting_headers |-> None,
     pc |-> "idle", tx |-> 0, n_calls |-> 0, ret |-> None, rx |-> <<>>,
     wire |-> <<>>, stream |-> <<>>, pings |-> 0, pongs |-> 0, recv_ret |-> None]

\* mutant of Mutex_lock: the lock is given to whoever asks
Mutex_lock_shared(m) == TRUE

\* Mutex::lock returns once nobody holds the Mutex
Mutex_lock(m) == m.lock = "free"

\* getheaders up to inner.lock(): the channel is made and the lock taken
MxGetheadersLock ==
    /\ mx.pc = "idle"
    /\ mx.n_calls < MaxMxCalls
    /\ Mutex_lock(mx)
    /\ mx' = [mx EXCEPT !.lock = "caller", !.pc = "locked", !.tx = mx.n_calls + 1,
                        !.n_calls = @ + 1, !.rx = <<>>]

\* getheaders: send_p2p_msg returned Ok
MxGetheadersSent ==
    /\ mx.pc = "locked"
    /\ mx' = [mx EXCEPT !.pc = "sent",
                        !.wire = Append(@, [cmd |-> "getheaders", val |-> mx.tx])]

\* getheaders: send_p2p_msg returned Err; the ? returns it and the guard is
\* dropped
MxGetheadersSendFailed ==
    /\ mx.pc = "locked"
    /\ mx' = [mx EXCEPT !.pc = "idle", !.lock = "free", !.ret = Some("Err")]

\* getheaders: waiting_headers is set, the guard is dropped, Ok(rx) returned
MxGetheadersInstall ==
    /\ mx.pc = "sent"
    /\ mx' = [mx EXCEPT !.waiting_headers = Some(mx.tx), !.lock = "free",
                        !.pc = "awaiting", !.ret = Some("Ok")]

\* the caller reads the headers from the Receiver getheaders gave it
MxCallerReceives ==
    /\ mx.pc = "awaiting"
    /\ mx.rx # <<>>
    /\ mx' = [mx EXCEPT !.pc = "idle"]

\* ConnectionInner::handle_headers_msg on the Connection m
inner_handle_headers_msg(m, headers) ==
    LET maybe_waiting_headers == m.waiting_headers
        taken == [m EXCEPT !.waiting_headers = None]
    IN IF ~maybe_waiting_headers.some
       THEN [taken EXCEPT !.recv_ret = Some("MisbehavePeer")]
       ELSE IF maybe_waiting_headers.val = m.tx
       THEN [taken EXCEPT !.rx = Append(@, headers)]
       ELSE taken

\* ConnectionInner::handle_ping_msg on the Connection m; sent tells whether
\* sync_send_msg returned Ok
inner_handle_ping_msg(m, sent) ==
    IF sent THEN [m EXCEPT !.pongs = @ + 1] ELSE [m EXCEPT !.recv_ret = Some("Err")]

\* ConnectionInner::handle_network_msg on the Connection m
inner_handle_network_msg(m, msg, sent) ==
    IF msg.cmd = "headers" THEN inner_handle_headers_msg(m, msg.val)
    ELSE IF msg.cmd = "ping" THEN inner_handle_ping_msg(m, sent)
    ELSE m

\* one turn of the for_each of recv_process: the lock is taken, the message
\* handled and the lock given back; an Err ends the task
MxRecvProcess ==
    /\ ~mx.recv_ret.some
    /\ mx.stream # <<>>
    /\ Mutex_lock(mx)
    /\ \E sent \in BOOLEAN :
          mx' = inner_handle_network_msg([mx EXCEPT !.stream = Tail(@)], Head(mx.stream), sent)

\* the peer reads a getheaders and answers it with a headers message
MxPeerReplies ==
    /\ mx.wire # <<>>
    /\ mx' = [mx EXCEPT !.wire = Tail(@),
                        !.stream = Append(@, [cmd |-> "headers", val |-> Head(mx.wire).val])]

\* the peer sends a ping
MxPeerPings ==
    /\ mx.pings < MaxMxPings
    /\ mx' = [mx EXCEPT !.pings = @ + 1, !.stream = Append(@, [cmd |-> "ping", val |-> 0])]

MxIdle == mx = MxConnection_new

(***************************************************************************)
(* spawn_actor_with of actor.rs: the task that runs an Actor.              *)
(***************************************************************************)
Mail_Msg(m) == [is_msg |-> TRUE, msg |-> m]

Mail_GracefulShutdown == [is_msg |-> FALSE, msg |-> 0]

\* spawn_actor_with: the channel is empty and the task waits on it.  pc is
\* where the task is, channel the mails in the mpsc channel, sent every mail
\* ever put into it, handled the messages whose on_message future resolved,
\* shutdown_calls the calls of Actor::shutdown, ended_on the mail or error
\* the task ended on
spawn_actor_with ==
    [pc |-> "receiving", channel |-> <<>>, sent |-> <<>>, handling |-> None,
     handled |-> <<>>, shutdown_calls |-> 0, ended_on |-> "nothing"]

\* the predicate of take_while: the stream ends at the first mail it rejects
take_while_keeps(mail) == mail.is_msg

\* ActorRef::try_send_msg: the mail is queued while the Receiver lives
ActorRef_try_send_msg(m) ==
    /\ act.pc # "ended"
    /\ act' = [act EXCEPT !.channel = Append(@, Mail_Msg(m)),
                          !.sent = Append(@, Mail_Msg(m))]

\* ActorRef::graceful_shutdown, its future polled until the mail is queued
ActorRef_graceful_shutdown ==
    /\ act.pc # "ended"
    /\ act' = [act EXCEPT !.channel = Append(@, Mail_GracefulShutdown),
                          !.sent = Append(@, Mail_GracefulShutdown)]

\* the task takes a mail from the channel.  A mail take_while rejects ends
\* the stream, and fold resolves with the actor it holds; the closure of
\* fold gets every other mail: on_message for a Msg, and shutdown() for a
\* GracefulShutdown, after which fold holds no actor
ActorTaskReceives ==
    /\ act.pc = "receiving"
    /\ act.channel # <<>>
    /\ LET mail == Head(act.channel)
           taken == [act EXCEPT !.channel = Tail(@)]
       IN IF ~take_while_keeps(mail)
          THEN act' = [taken EXCEPT !.pc = "ended", !.ended_on = "GracefulShutdown"]
          ELSE IF mail.is_msg
          THEN act' = [taken EXCEPT !.pc = "on_message", !.handling = Some(mail.msg)]
          ELSE act' = [taken EXCEPT !.pc = "ended", !.ended_on = "GracefulShutdown",
                                    !.shutdown_calls = @ + 1]

\* the future of on_message resolves with the actor
ActorHandled ==
    /\ act.pc = "on_message"
    /\ act' = [act EXCEPT !.pc = "receiving", !.handling = None,
                          !.handled = Append(@, act.handling.val)]

\* the future of on_message fails: fold fails and the task ends
ActorFailed ==
    /\ act.pc = "on_message"
    /\ act' = [act EXCEPT !.pc = "ended", !.handling = None, !.ended_on = "Err"]

ActIdle == act = spawn_actor_with

\* the components of a specification that does not use them
ExtIdle == NodeIdle /\ DmIdle /\ IbdIdle /\ MxIdle /\ ActIdle

JobInit ==
    /\ job = Job_new
    /\ job_ret = None

(***************************************************************************)
(* Specifications.                                                         *)
(***************************************************************************)
\* the BlockChain of a specification that does not use it
ChainIdle == ChainInit /\ bc_nodes[1].block.height = 0

\* the Connection, the SyncBlockChain job and the peer of a specification
\* that does not use them
CoreIdle ==
    ConnInit /\ SyncInit /\ PeerInit /\ peer_len = 0 /\ SockInit /\ sock_in = <<>> /\ JobInit

NetIdle == CoreIdle /\ ExtIdle

ChainTryAdd ==
    /\ Len(bc_nodes) < MaxNodes
    /\ \E block_header \in Headers : BlockChain_try_add(block_header)
    /\ UNCHANGED <<mutVars, jobVars, extVars, sockVars, connVars, syncVars>>

ChainNext == ChainTryAdd

\* a BlockChain; the other components stay as constructed
ChainSpecInit == ChainInit /\ MutInit /\ NetIdle

SpecChain == ChainSpecInit /\ [][ChainNext]_vars

MutTryAdd ==
    /\ Len(bt_nodes) < MaxMutNodes
    /\ \E header \in MutOffers :
           /\ IsSide(header) => SideCount < MaxSide
           /\ BlockChainMut_try_add(StoredBlock(header))
    /\ UNCHANGED <<chainVars, connVars, syncVars, sockVars, jobVars, extVars>>

MutNext == MutTryAdd

\* a BlockChainMut; the other components stay as constructed
MutSpecInit == ChainIdle /\ MutInit /\ NetIdle

SpecMut == MutSpecInit /\ [][MutNext]_vars

\* the store was constructed and not used since
ChainFresh == Len(bc_nodes) = 1 /\ bc_ret = Ok
MutFresh == Len(bt_nodes) = 1 /\ bcm_ret = Ok

\* a program that holds a store of either kind and gives its headers to it
StoreChainTryAdd == MutFresh /\ ChainTryAdd
StoreMutTryAdd == ChainFresh /\ Len(bt_nodes) < MaxStoreNodes /\ MutTryAdd

StoreNext == StoreChainTryAdd \/ StoreMutTryAdd

StoreSpecInit == ChainInit /\ MutInit /\ NetIdle

SpecStore == StoreSpecInit /\ [][StoreNext]_vars

\* the hashes of the blocks of the BlockChain
ChainHashes == {bitcoin_hash(bc_nodes[n].block) : n \in 1..Len(bc_nodes)}

\* the nodes of the BlockChain that fork from the chain of the headers with
\* nonce 0, or repeat a block
ChainSideCount ==
    Cardinality({n \in 1..Len(bc_nodes) :
        \/ \E i \in 1..Len(bc_nodes[n].block.hash) : bc_nodes[n].block.hash[i] # 0
        \/ \E m \in 1..(n - 1) : bc_nodes[m].block.hash = bc_nodes[n].block.hash})

\* a BlockChain that grows past the length of a locator: the headers offered
\* are successors of its blocks, or of an unknown block
LocatorTryAdd ==
    /\ Len(bc_nodes) < MaxLocatorNodes
    /\ \E p \in ChainHashes \cup {NullHash}, x \in Nonces :
           LET block_header == [prev_blockhash |-> p, nonce |-> x] IN
           /\ (x # 0 \/ \E i \in 1..Len(p) : p[i] # 0
                      \/ header_bitcoin_hash(block_header) \in ChainHashes)
                  => ChainSideCount < MaxLocatorSide
           /\ BlockChain_try_add(block_header)
    /\ UNCHANGED <<mutVars, jobVars, extVars, sockVars, connVars, syncVars>>

LocatorNext == LocatorTryAdd

LocatorSpecInit == ChainInit /\ MutInit /\ NetIdle

SpecLocator == LocatorSpecInit /\ [][LocatorNext]_vars

\* the write to the socket completes
SocketWritten ==
    /\ ConnSendDone
    /\ UNCHANGED <<chainVars, mutVars, jobVars, extVars, sockVars, syncVars, conn_events, conn_mailbox, stream_in>>

\* the write to the socket fails
SocketWriteFailed ==
    /\ ConnSendFailed
    /\ UNCHANGED <<chainVars, mutVars, jobVars, extVars, sockVars, syncVars, conn_events, conn_mailbox, stream_in>>

\* the read from the socket fails
SocketError ==
    /\ ConnStreamError
    /\ UNCHANGED <<chainVars, mutVars, jobVars, extVars, sockVars, syncVars, conn_events, conn_mailbox, stream_in>>

\* the recipients of the requests given to a Connection
Callers == {"a", "b"}

\* the messages a peer may send to a Connection
PeerMessages ==
    {NetworkMessage_Ping(0), NetworkMessage_Ping(1),
     NetworkMessage_Headers(<<PeerHeader(1)>>),
     NetworkMessage_Block(PeerHeader(1)), NetworkMessage_Block(PeerHeader(2)),
     NetworkMessage_Block(PeerHeader(3)),
     NetworkMessage_Inv(<<Inventory(PeerHash(1))>>),
     NetworkMessage_Addr(<<"peer">>), NetworkMessage_Verack}

\* the requests the callers may give to a Connection
Requests ==
    {GetBlocksRequest(hashes, addr) :
         hashes \in {<<PeerHash(1)>>, <<PeerHash(1), PeerHash(2)>>,
                     <<PeerHash(1), PeerHash(1)>>},
         addr \in Callers}
    \cup {GetHeadersRequest(<<PeerHash(0)>>, addr) : addr \in Callers}
    \cup {GetAddrsRequest(addr) : addr \in Callers}
    \cup {Disconnect}

\* a message of the peer reaches the actor
ConnRecv ==
    /\ conn_events < MaxConnEvents
    /\ conn_events' = conn_events + 1
    /\ \E msg \in PeerMessages : ConnHandleMsg(msg)
    /\ UNCHANGED <<chainVars, mutVars, jobVars, extVars, sockVars, syncVars, conn_mailbox, stream_in>>

\* a request of a caller reaches the actor
ConnRequest ==
    /\ conn_events < MaxConnEvents
    /\ conn_events' = conn_events + 1
    /\ \E req \in Requests : ConnHandleReq(req)
    /\ UNCHANGED <<chainVars, mutVars, jobVars, extVars, sockVars, syncVars, conn_mailbox, stream_in>>

\* the recipient of a HeadersResponse has handled it: the send the actor
\* waits for resolves
ConnDelivered ==
    /\ conn.state = "running"
    /\ conn.wait.kind = "deliver"
    /\ conn' = [conn EXCEPT !.wait = NoWait]
    /\ conn_call' = Call("delivered", conn.wait.to)
    /\ UNCHANGED <<chainVars, mutVars, jobVars, extVars, sockVars, syncVars, conn_events, conn_mailbox, stream_in,
                   wire_out, delivered>>

\* a caller has a SubscribeInv for the actor: Connection has no
\* Handler<SubscribeInv>, so no field of the actor changes
ConnSubscribe ==
    /\ conn_events < MaxConnEvents
    /\ conn_events' = conn_events + 1
    /\ Ready(conn)
    /\ \E addr \in Callers : conn_call' = Call("req", SubscribeInv(addr))
    /\ UNCHANGED <<chainVars, mutVars, jobVars, extVars, sockVars, syncVars, conn, conn_mailbox, stream_in,
                   wire_out, delivered>>

ConnNext ==
    \/ ConnRecv
    \/ ConnRequest
    \/ ConnSubscribe
    \/ SocketWritten
    \/ SocketWriteFailed
    \/ SocketError
    \/ ConnDelivered

\* a Connection with its callers and its peer
ConnSpecInit == ChainIdle /\ MutInit /\ NetIdle

SpecConn == ConnSpecInit /\ [][ConnNext]_vars

\* the blocks and pings a peer may send, and the GetBlocksRequests of a caller
ConnLiveRecv ==
    /\ conn_events < MaxConnEvents
    /\ conn_events' = conn_events + 1
    /\ \E msg \in {NetworkMessage_Block(PeerHeader(1)), NetworkMessage_Block(PeerHeader(2)),
                    NetworkMessage_Ping(1)} : ConnHandleMsg(msg)
    /\ UNCHANGED <<chainVars, mutVars, jobVars, extVars, sockVars, syncVars, conn_mailbox, stream_in>>

ConnLiveRequest ==
    /\ conn_events < MaxConnEvents
    /\ conn_events' = conn_events + 1
    /\ \E req \in {GetBlocksRequest(hashes, "a") :
                        hashes \in {<<PeerHash(1)>>, <<PeerHash(1), PeerHash(2)>>}} :
           ConnHandleReq(req)
    /\ UNCHANGED <<chainVars, mutVars, jobVars, extVars, sockVars, syncVars, conn_mailbox, stream_in>>

ConnLiveNext ==
    \/ ConnLiveRecv
    \/ ConnLiveRequest
    \/ SocketWritten
    \/ SocketWriteFailed
    \/ SocketError

\* every write to the socket that is started ends; the peer and the callers
\* are free to send nothing
ConnFairness == WF_vars(SocketWritten)

\* a Connection, a caller that asks for blocks, and a peer that sends some
SpecConnLive == ConnSpecInit /\ [][ConnLiveNext]_vars /\ ConnFairness

\* the job starts
SyncStart ==
    /\ SyncStarted
    /\ UNCHANGED <<mutVars, jobVars, extVars, sockVars, conn_events, stream_in, wire_out, peer_len, peer_sent>>

\* the job handles a HeadersResponse
SyncHeaders ==
    /\ SyncHandleHeaders
    /\ UNCHANGED <<mutVars, jobVars, extVars, sockVars, conn_events, stream_in, wire_out, peer_len, peer_sent>>

\* the recipient of the job's result has handled it
SyncNotified ==
    /\ SyncNotifyDone
    /\ UNCHANGED <<mutVars, jobVars, extVars, sockVars, conn_events, stream_in, wire_out, peer_len, peer_sent>>

\* the send of a request resolves
request_resolved(sy, req) ==
    IF req.req = "GetHeadersRequest" /\ sy.wait = "request"
    THEN [sy EXCEPT !.wait = "none"]
    ELSE sy

\* the connection handles the next message of its mailbox
SyncConnRequest ==
    /\ conn_mailbox # <<>>
    /\ ConnHandleReq(Head(conn_mailbox))
    /\ conn_mailbox' = Tail(conn_mailbox)
    /\ sync' = request_resolved(sync, Head(conn_mailbox))
    /\ UNCHANGED <<chainVars, mutVars, jobVars, extVars, sockVars, notified, peer_len, peer_sent, conn_events, stream_in>>

\* the connection has stopped: the next message of its mailbox is dropped
\* and the send of the request resolves with an error
SyncRequestDropped ==
    /\ conn.state = "stopped"
    /\ conn_mailbox # <<>>
    /\ conn_mailbox' = Tail(conn_mailbox)
    /\ sync' = request_resolved(sync, Head(conn_mailbox))
    /\ UNCHANGED <<chainVars, mutVars, jobVars, extVars, sockVars, notified, peer_len, peer_sent, conn, conn_call,
                   conn_events, stream_in, wire_out, delivered>>

\* the connection handles the next message of the peer
SyncConnRecv ==
    /\ stream_in # <<>>
    /\ ConnHandleMsg(Head(stream_in))
    /\ stream_in' = Tail(stream_in)
    /\ UNCHANGED <<chainVars, mutVars, jobVars, extVars, sockVars, syncVars, conn_events, conn_mailbox>>

PeerAnswers ==
    /\ PeerAnswer
    /\ UNCHANGED <<chainVars, mutVars, jobVars, extVars, sockVars, sync, notified, peer_len, conn, conn_call,
                   conn_events, conn_mailbox, delivered>>

\* the peer sends a ping
PeerPings ==
    /\ PeerUnsolicited(NetworkMessage_Ping(1))
    /\ UNCHANGED <<chainVars, mutVars, jobVars, extVars, sockVars, sync, notified, peer_len, conn, conn_call,
                   conn_events, conn_mailbox, delivered>>

\* the peer sends headers nobody asked for
PeerPushes ==
    /\ \E msg \in UnsolicitedHeaders : PeerUnsolicited(msg)
    /\ UNCHANGED <<chainVars, mutVars, jobVars, extVars, sockVars, sync, notified, peer_len, conn, conn_call,
                   conn_events, conn_mailbox, delivered>>

\* a job, its connection, and a peer that answers and otherwise sends only pings
SyncLiveNext ==
    \/ SyncStart
    \/ SyncHeaders
    \/ SyncNotified
    \/ SyncConnRequest
    \/ SyncConnRecv
    \/ SocketWritten
    \/ PeerAnswers
    \/ PeerPings

\* the same with a socket that may fail and a peer that may misbehave
SyncNext ==
    \/ SyncStart
    \/ SyncHeaders
    \/ SyncNotified
    \/ SyncConnRequest
    \/ SyncConnRecv
    \/ SocketWritten
    \/ PeerAnswers
    \/ PeerPings
    \/ SyncRequestDropped
    \/ SocketWriteFailed
    \/ SocketError
    \/ PeerPushes

\* a SyncBlockChain job with its BlockChain, its Connection and the peer
SyncSpecInit ==
    /\ ChainInit /\ MutInit /\ ConnInit /\ SyncInit /\ PeerInit /\ SockInit /\ sock_in = <<>>
    /\ JobInit /\ ExtIdle

SpecSync == SyncSpecInit /\ [][SyncNext]_vars

\* the step of SyncHeaders, told by its guard and by what it alone does:
\* it takes the first message off delivered
SyncHeadersTaken ==
    /\ sync.state = "running"
    /\ sync.wait = "none"
    /\ sync.blockchain
    /\ ~bc_panic
    /\ delivered # <<>>
    /\ Head(delivered).to = SyncAddr
    /\ delivered' = Tail(delivered)

\* every actor and the peer go on when they can, the socket does not fail
SyncFairness ==
    /\ WF_vars(SyncStart)
    /\ WF_delivered(SyncHeadersTaken)
    /\ WF_vars(SyncNotified)
    /\ WF_vars(SyncConnRequest)
    /\ WF_vars(SyncConnRecv)
    /\ WF_vars(SocketWritten)
    /\ WF_vars(PeerAnswers)

SpecSyncLive == SyncSpecInit /\ [][SyncLiveNext]_vars /\ SyncFairness

\* the same fairness, for a job whose socket may fail and whose peer may
\* misbehave: a request sent to a stopped connection is dropped in the end
SyncStopFairness == SyncFairness /\ WF_vars(SyncRequestDropped)

SpecSyncStop == SyncSpecInit /\ [][SyncNext]_vars /\ SyncStopFairness

\* the frames untouched by an action of the socket
SockFrame == UNCHANGED <<chainVars, mutVars, jobVars, extVars, syncVars, conn_events, conn_mailbox, stream_in>>

ConnUntouched == UNCHANGED <<conn, conn_call, wire_out, delivered>>

SendVersion == HsSendVersion /\ SockFrame /\ ConnUntouched

SendVerack == HsSendVerack /\ SockFrame /\ ConnUntouched

SendFailed == HsSendFailed /\ SockFrame /\ ConnUntouched

RecvVersion == HsRecvVersion /\ SockFrame /\ ConnUntouched

RecvVerack == HsRecvVerack /\ SockFrame /\ ConnUntouched

\* the Connection created on the HandshakedSocket takes the next item of its stream
SockStreamRecv == StreamRecv /\ SockFrame

\* the requests given to the Connection created on the HandshakedSocket
SockRequests == {GetHeadersRequest(<<PeerHash(0)>>, "a"), GetAddrsRequest("a")}

SockRequest ==
    /\ hs.pc = "done"
    /\ conn_events < MaxConnEvents
    /\ conn_events' = conn_events + 1
    /\ \E req \in SockRequests : ConnHandleReq(req)
    /\ UNCHANGED <<chainVars, mutVars, jobVars, extVars, syncVars, sockVars, conn_mailbox, stream_in>>

SockNext ==
    \/ SendVersion
    \/ SendVerack
    \/ SendFailed
    \/ RecvVersion
    \/ RecvVerack
    \/ SockStreamRecv
    \/ SockRequest
    \/ SocketWritten
    \/ SocketWriteFailed

\* a socket, the frames its peer sends before it closes, the handshake and
\* the Connection created when it succeeds
SockSpecInit ==
    /\ ChainIdle /\ MutInit
    /\ ConnInit /\ SyncInit /\ PeerInit /\ peer_len = 0
    /\ SockInit
    /\ JobInit /\ ExtIdle
    /\ sock_in \in PeerStreams(MaxFrames)

SpecSock == SockSpecInit /\ [][SockNext]_vars

\* what a step of a future of the peer library leaves alone
JobNetFrame ==
    UNCHANGED <<mutVars, extVars, sockVars, syncVars, conn, conn_call, conn_events, conn_mailbox,
                delivered>>

PeerSyncCall == SyncBlockchainCall /\ JobNetFrame

PeerJobSent == JobSent /\ JobNetFrame /\ UNCHANGED chainVars

PeerJobSendFailed == JobSendFailed /\ JobNetFrame /\ UNCHANGED chainVars

PeerJobPing == ConnectionRecvPing /\ JobNetFrame /\ UNCHANGED chainVars

PeerJobDiscard == ConnectionRecvDiscard /\ JobNetFrame /\ UNCHANGED chainVars

PeerSyncKept == RecvHeadersKept /\ JobNetFrame

PeerSyncBlock == RecvHeadersBlock /\ JobNetFrame

PeerSyncHeaders == SyncBlockchainHeaders /\ JobNetFrame

\* the messages a peer may send without being asked, other than headers
Chatter ==
    {NetworkMessage_Inv(<<Inventory(PeerHash(1))>>), NetworkMessage_Addr(<<"peer">>),
     NetworkMessage_Verack, NetworkMessage_Block(PeerHeader(1))}

\* the peer sends a message nobody asked for
PeerChats ==
    /\ \E msg \in Chatter : PeerUnsolicited(msg)
    /\ UNCHANGED <<chainVars, mutVars, jobVars, extVars, sockVars, sync, notified, peer_len, conn,
                   conn_call, conn_events, conn_mailbox, delivered>>

\* the blocks of the peer's chain a caller asks for, and the lists it asks
PeerBlockData(n) == BlockData(PeerHeader(n), n)

RECURSIVE BlockLists(_)
BlockLists(n) ==
    IF n = 0 THEN {<<>>}
    ELSE BlockLists(n - 1)
         \cup {Append(l, PeerBlockData(k)) : l \in BlockLists(n - 1), k \in {1, 2}}

PeerBlocksCall ==
    /\ \E req_blocks \in BlockLists(MaxReqBlocks) : DownloadFullBlocksCall(req_blocks)
    /\ JobNetFrame /\ UNCHANGED chainVars

PeerBlocksKept == RecvBlocksKept /\ JobNetFrame /\ UNCHANGED chainVars

PeerBlocksHeaders == RecvBlocksHeaders /\ JobNetFrame /\ UNCHANGED chainVars

PeerBlocksBlock == DownloadFullBlocksBlock /\ JobNetFrame /\ UNCHANGED chainVars

PeerServes ==
    /\ PeerServe
    /\ UNCHANGED <<chainVars, mutVars, jobVars, extVars, sockVars, sync, notified, peer_len, conn,
                   conn_call, conn_events, conn_mailbox, delivered>>

\* the peer sends a message nobody asked for
PeerBlocksChats ==
    /\ \E msg \in {NetworkMessage_Inv(<<Inventory(PeerHash(1))>>), NetworkMessage_Verack,
                   NetworkMessage_Headers(<<>>), NetworkMessage_Block(PeerHeader(1))} :
           PeerUnsolicited(msg)
    /\ UNCHANGED <<chainVars, mutVars, jobVars, extVars, sockVars, sync, notified, peer_len, conn,
                   conn_call, conn_events, conn_mailbox, delivered>>

\* Peer::download_full_blocks and the peer
PeerBlocksNext ==
    \/ PeerBlocksCall
    \/ PeerJobSent
    \/ PeerJobSendFailed
    \/ PeerJobPing
    \/ PeerJobDiscard
    \/ PeerBlocksKept
    \/ PeerBlocksHeaders
    \/ PeerBlocksBlock
    \/ PeerServes
    \/ PeerPings
    \/ PeerBlocksChats

PeerBlocksSpecInit ==
    /\ ChainIdle /\ MutInit /\ ConnInit /\ SyncInit /\ PeerInit /\ peer_len = 0
    /\ SockInit /\ sock_in = <<>> /\ JobInit /\ ExtIdle

SpecPeerBlocks == PeerBlocksSpecInit /\ [][PeerBlocksNext]_vars

PeerSyncNext ==
    \/ PeerSyncCall
    \/ PeerJobSent
    \/ PeerJobSendFailed
    \/ PeerJobPing
    \/ PeerJobDiscard
    \/ PeerSyncKept
    \/ PeerSyncBlock
    \/ PeerSyncHeaders
    \/ PeerAnswers
    \/ PeerPings
    \/ PeerChats

\* Peer::sync_blockchain with its BlockChain, and the peer
PeerSyncSpecInit ==
    ChainInit /\ MutInit /\ ConnInit /\ SyncInit /\ PeerInit /\ SockInit /\ sock_in = <<>> /\ JobInit /\ ExtIdle

SpecPeerSync == PeerSyncSpecInit /\ [][PeerSyncNext]_vars

\* what a step of the listener leaves alone
ListenFrame ==
    UNCHANGED <<chainVars, extVars, sockVars, sync, notified, peer_len, conn, conn_call, conn_events,
                conn_mailbox, delivered>>

ListenCall == ListenSingleProcessCall /\ ListenFrame /\ UNCHANGED peer_sent

ListenJobSent == JobSent /\ ListenFrame /\ UNCHANGED <<mutVars, peer_sent>>

ListenJobSendFailed == ListenSendFailed /\ ListenFrame /\ UNCHANGED peer_sent

ListenJobPing == ConnectionRecvPing /\ ListenFrame /\ UNCHANGED <<mutVars, peer_sent>>

ListenJobDiscard == ConnectionRecvDiscard /\ ListenFrame /\ UNCHANGED <<mutVars, peer_sent>>

ListenJobFirst == ListenFirst /\ ListenFrame /\ UNCHANGED peer_sent

ListenJobHeaders == ListenHeaders /\ ListenFrame /\ UNCHANGED peer_sent

ListenJobBlocks == ListenBlocks /\ ListenFrame /\ UNCHANGED peer_sent

ListenPeerServes == ListenPeerServe /\ ListenFrame /\ UNCHANGED <<mutVars, jobVars>>

ListenPeerAnnounces == ListenPeerSends /\ ListenFrame /\ UNCHANGED <<mutVars, jobVars>>

\* listen_new_block with its BlockChainMut, and the peer
ListenNext ==
    \/ ListenCall
    \/ ListenJobSent
    \/ ListenJobSendFailed
    \/ ListenJobPing
    \/ ListenJobDiscard
    \/ ListenJobFirst
    \/ ListenJobHeaders
    \/ ListenJobBlocks
    \/ ListenPeerServes
    \/ ListenPeerAnnounces

ListenSpecInit ==
    ChainIdle /\ MutInit /\ ConnInit /\ SyncInit /\ PeerInit /\ SockInit /\ sock_in = <<>> /\ JobInit /\ ExtIdle

SpecListen == ListenSpecInit /\ [][ListenNext]_vars

(***************************************************************************)
(* Properties of BlockChain.                                               *)
(***************************************************************************)
Range(s) == {s[i] : i \in 1..Len(s)}

NodeIds == 1..Len(bc_nodes)

height_of(n) == bc_nodes[n].block.height

tip == active_nodes[Len(active_nodes)]

\* the nodes from the node without prev down to n, following the prev edges
RECURSIVE PathFromRoot(_, _)
PathFromRoot(nodes, n) ==
    IF nodes[n].prev = NoNode THEN <<n>>
    ELSE Append(PathFromRoot(nodes, nodes[n].prev), n)

\* a try_add step that allocated a node
Linked == Len(bc_nodes') = Len(bc_nodes) + 1

\* C1 (state part): the tip of the active chain has the greatest height of
\* all nodes of the tree and is the first allocated node of that height.
C1TipIsFirstHighest ==
    \A n \in NodeIds :
        /\ height_of(n) <= height_of(tip)
        /\ height_of(n) = height_of(tip) => tip <= n

\* C1 (step part): linking a header whose height equals the height of the
\* current tip leaves the active chain as it was.
C1TieKeepsChain ==
    (Linked /\ bc_nodes'[Len(bc_nodes')].block.height = height_of(tip))
        => active_nodes' = active_nodes

\* C1: after any sequence of try_add calls the latest block of the active
\* chain has the greatest height of all nodes, among the nodes of that height
\* it is the one added first, and a header that only ties with the tip never
\* changes the active chain.
C1 == [](~bc_panic => C1TipIsFirstHighest) /\ [][C1TieKeepsChain]_vars

\* C1 witness: a second node ties with the tip of a chain of two or more blocks.
C1Witness ==
    /\ Len(active_nodes) >= 2
    /\ \E n \in NodeIds : n # tip /\ height_of(n) = height_of(tip)
                          /\ bitcoin_hash(bc_nodes[n].block) # bitcoin_hash(bc_nodes[tip].block)

\* C2: when try_add links a header higher than the current tip, the active
\* chain afterwards is the path from the root to the new node: the old chain
\* up to the fork point followed by the new branch; the old blocks above the
\* fork point leave the active chain, stay in the tree unchanged, and are
\* still found by the search for a parent.
C2Step ==
    LET new == Len(bc_nodes') IN
    (Linked /\ bc_nodes'[new].block.height > height_of(tip)) =>
        /\ ~bc_panic'
        /\ active_nodes' = PathFromRoot(bc_nodes', new)
        /\ \E k \in 1..Len(active_nodes) :
               /\ k < Len(active_nodes')
               /\ SubSeq(active_nodes', 1, k) = SubSeq(active_nodes, 1, k)
               /\ \A i \in (k + 1)..Len(active_nodes) :
                      /\ active_nodes[i] \notin Range(active_nodes')
                      /\ bc_nodes'[active_nodes[i]].block = bc_nodes[active_nodes[i]].block
                      /\ borrow_then_find_node(bc_nodes', active_nodes',
                             bitcoin_hash(bc_nodes[active_nodes[i]].block)) = active_nodes[i]

C2 == [][C2Step]_vars

\* the first allocated node of height h (NoNode when there is none)
FirstOfHeight(h) ==
    LET S == {n \in NodeIds : height_of(n) = h} IN
    IF S = {} THEN NoNode ELSE CHOOSE n \in S : \A m \in S : n <= m

\* C2 witness: the node just linked became the tip although the tip before it
\* (the first node one level lower) is not its parent: a branch was replaced.
C2Witness ==
    /\ ~bc_panic
    /\ tip = Len(bc_nodes)
    /\ Len(active_nodes) >= 3
    /\ FirstOfHeight(height_of(tip) - 1) \notin Range(active_nodes)

\* C3: the active chain is a contiguous hash-linked path: each block but the
\* first names its predecessor's hash and is one higher, the block at index i
\* has height start_height + i, and get_block(h) is the active block of
\* height h.
C3 ==
    ~bc_panic =>
    LET blocks == ActiveChain_iter(bc_nodes, active_nodes)
        start_height == blocks[1].height
    IN /\ Len(blocks) >= 1
       /\ \A i \in 2..Len(blocks) :
              /\ blocks[i].header.prev_blockhash = bitcoin_hash(blocks[i - 1])
              /\ blocks[i].height = blocks[i - 1].height + 1
       /\ \A i \in 1..Len(blocks) :
              /\ blocks[i].height = start_height + (i - 1)
              /\ get_block_idx(bc_nodes, active_nodes, blocks[i].height) = i
       /\ \A h \in 0..(start_height + Len(blocks) + 1) :
              (h < start_height \/ h >= start_height + Len(blocks))
                  => get_block_idx(bc_nodes, active_nodes, h) = 0

\* C3 witness: an active chain of three blocks that does not start at height
\* 0, in a tree that has a block outside the active chain.
C3Witness ==
    /\ ~bc_panic
    /\ Len(active_nodes) >= 3
    /\ bc_nodes[active_nodes[1]].block.height > 0
    /\ \E n \in NodeIds : n \notin Range(active_nodes)

\* no node of the tree has the given hash
NoNodeHasHash(hash) == \A n \in NodeIds : bitcoin_hash(bc_nodes[n].block) # hash

\* C4: try_add of a header whose prev_blockhash is the hash of no node returns
\* Err(NotFoundPrevBlock(header)) with that header and leaves the tree and the
\* active chain as they were.
C4Step ==
    NoNodeHasHash(bc_call'.prev_blockhash) =>
        /\ bc_ret' = NotFoundPrevBlock(bc_call')
        /\ bc_nodes' = bc_nodes
        /\ active_nodes' = active_nodes

C4 == [][C4Step]_vars

\* C4 witness: a header was rejected by a tree that holds a fork.
C4Witness ==
    /\ ~bc_ret.ok
    /\ NoNodeHasHash(bc_ret.err.prev_blockhash)
    /\ Len(bc_nodes) >= 3
    /\ \E n \in NodeIds : n \notin Range(active_nodes)

(***************************************************************************)
(* Properties of BlockChainMut.                                            *)
(***************************************************************************)
\* the nodes that can be reached from n over the nexts edges
RECURSIVE Reachable(_, _)
Reachable(nodes, n) ==
    {n} \cup UNION {Reachable(nodes, nodes[n].nexts[i]) : i \in 1..Len(nodes[n].nexts)}

\* a pointer the code follows points to freed memory
Dangling(nodes, h, l) ==
    \/ nodes[l].freed
    \/ \E n \in Reachable(nodes, h) : nodes[n].freed

\* the unstable tree follows no pointer to freed memory, hits no panic, and
\* its iterator's array is large enough
MutMemorySafe ==
    /\ ~Dangling(bt_nodes, head, last)
    /\ ~bcm_panic
    /\ BlockTree_iter_fits(bt_nodes, last)

\* each block of the sequence but the first names the hash of the one before
HashLinked(blocks) ==
    \A i \in 2..Len(blocks) : blocks[i].header.prev_blockhash = bitcoin_hash(blocks[i - 1])

C6Step ==
    /\ Len(stable_chain') + len' >= Len(stable_chain) + len
    /\ Len(stable_chain') >= Len(stable_chain)
    /\ SubSeq(stable_chain', 1, Len(stable_chain)) = stable_chain

C6 == [][C6Step]_vars

\* C6 witness: two blocks are stable, and the second was stabled by a tip on
\* another branch than the first: the parent of the tip is the second child
\* of its parent, whose first child was the tip before.
C6Witness ==
    /\ ~bcm_panic
    /\ Len(stable_chain) >= 2
    /\ last = Len(bt_nodes)
    /\ bt_nodes[last].prev # NoNode
    /\ bt_nodes[bt_nodes[last].prev].prev # NoNode
    /\ LET m == bt_nodes[last].prev
           p == bt_nodes[m].prev
       IN /\ Len(bt_nodes[p].nexts) = 2
          /\ bt_nodes[p].nexts[2] = m

(***************************************************************************)
(* Properties of SyncBlockChain.                                           *)
(***************************************************************************)
\* the step is Handler<HeadersResponse> of the job
SyncHandles == delivered # <<>> /\ delivered' = Tail(delivered)

\* the steps that take the first message off delivered are those of SyncHeaders
SyncHeadersTakenIsSyncHeaders == [][SyncHeadersTaken <=> SyncHeaders]_vars

\* try_add accepts every header of the HeadersResponse the job handles next
AllAccepted ==
    LET r == try_add_each(bc_nodes, active_nodes, bc_call, Head(delivered).msg.val) IN
    r.ret.ok /\ ~r.panic

\* the hash of the active tip of a store delivered to notify
StoreTip(res) == bitcoin_hash(latest_block(res.nodes, res.active))

C7Step ==
    SyncHandles /\ AllAccepted =>
        IF Len(Head(delivered).msg.val) = NUM_MAX_HEADERS_IN_MSG
        THEN /\ conn_mailbox' =
                    Append(conn_mailbox, request_getheaders(bc_nodes', active_nodes'))
             /\ notified' = notified
        ELSE /\ notified' = Append(notified, Complete(bc_nodes', active_nodes'))
             /\ conn_mailbox' = conn_mailbox

\* C7: on a HeadersResponse whose headers try_add all accepts, the job sends
\* a new GetHeadersRequest with the locator of the updated chain and does not
\* notify when the response is full (NUM_MAX_HEADERS_IN_MSG headers), and
\* delivers Complete(store) and sends no request for any other number.
C7AsStated == [][C7Step]_vars

\* C8: against a peer that answers every getheaders with the headers after
\* the newest locator hash it knows, the job eventually delivers
\* Complete(store) with the peer's tip as the active tip.
C8AsStated ==
    <>(/\ Len(notified) = 1
       /\ notified[1].kind = "Complete"
       /\ StoreTip(notified[1]) = PeerHash(peer_len))

\* the tree after try_add of the first k of the headers
RECURSIVE AfterPrefix(_, _, _, _)
AfterPrefix(nodes, active, headers, k) ==
    IF k = 0 THEN [nodes |-> nodes, active |-> active, ret |-> Ok, panic |-> FALSE]
    ELSE LET before == AfterPrefix(nodes, active, headers, k - 1) IN
         try_add_inner(before.nodes, before.active, headers[k])

\* try_add accepts the first k - 1 of the headers and rejects the k-th
RejectedAt(headers, k) ==
    /\ \A j \in 0..(k - 1) :
           LET r == AfterPrefix(bc_nodes, active_nodes, headers, j) IN r.ret.ok /\ ~r.panic
    /\ LET r == AfterPrefix(bc_nodes, active_nodes, headers, k) IN ~r.ret.ok /\ ~r.panic

\* the job handles a HeadersResponse of which try_add rejects a header: it
\* sends Disconnect and no request, keeps the tree of the headers accepted
\* before, and delivers Error with that tree
C26Handle ==
    SyncHandles =>
        LET headers == Head(delivered).msg.val IN
        \A k \in 1..Len(headers) :
            RejectedAt(headers, k) =>
                LET kept == AfterPrefix(bc_nodes, active_nodes, headers, k - 1) IN
                /\ conn_mailbox' = Append(conn_mailbox, Disconnect)
                /\ bc_nodes' = kept.nodes
                /\ active_nodes' = kept.active
                /\ notified' = Append(notified, Error(kept.nodes, kept.active))

\* once a result was delivered the job sends no request, delivers nothing
\* more and leaves the store alone
C26After ==
    notified # <<>> =>
        /\ notified' = notified
        /\ UNCHANGED <<bc_nodes, active_nodes>>
        /\ conn_mailbox' = conn_mailbox \/ conn_mailbox' = Tail(conn_mailbox)

\* C26: if try_add rejects a header of a HeadersResponse, the job sends
\* Disconnect to the connection, applies none of the remaining headers, sends
\* no further GetHeadersRequest and delivers exactly one Error(store), in
\* which every header accepted before the failure is present.
C26 == [][C26Handle /\ C26After]_vars

\* C26 witness: Error was delivered for a response whose second header was
\* rejected; the store holds the first header and not the third.
C26Witness ==
    /\ Len(notified) = 1
    /\ notified[1].kind = "Error"
    /\ bc_call = OrphanHeader
    /\ ~bc_ret.ok
    /\ \E n \in 1..Len(notified[1].nodes) :
           /\ n > 1
           /\ notified[1].nodes[n].block.header = PeerHeader(1)
           /\ notified[1].active[Len(notified[1].active)] = n
    /\ \A n \in 1..Len(notified[1].nodes) :
           notified[1].nodes[n].block.header # PeerHeader(2)
    /\ \E i \in 1..Len(conn_mailbox) : conn_mailbox[i] = Disconnect

\* the connection has stopped while the job is running, has no result yet
\* and no HeadersResponse is on its way to it
StoppedUnderJob ==
    /\ conn.state = "stopped"
    /\ sync.state = "running"
    /\ notified = <<>>
    /\ delivered = <<>>

\* C27: if the Connection stops while the job is sending a GetHeadersRequest
\* or waiting for its HeadersResponse, the job eventually delivers its one
\* result (Error(store) by the claim) instead of waiting forever.
C27AsStated == StoppedUnderJob ~> (Len(notified) = 1)

(***************************************************************************)
(* Properties of Connection.                                               *)
(***************************************************************************)
\* the pending requests of the actor
Pending(c) == <<c.waiting_blocks, c.waiting_headers, c.subscribe_invs, c.waiting_addrs>>

\* the actor handles ping(n): the write of pong(n) starts, nothing is sent
\* to a recipient and no pending request changes
C9Handle ==
    \A n \in Nonces :
        conn_events' # conn_events /\ conn_call' = Call("msg", NetworkMessage_Ping(n)) =>
            /\ conn'.wait = WaitSend(NetworkMessage_Pong(n))
            /\ conn'.state = "running"
            /\ ~conn'.panic
            /\ Pending(conn') = Pending(conn)
            /\ delivered' = delivered
            /\ wire_out' = wire_out

\* a write that was started ends with its message on the socket, once, or
\* with the actor stopped; nothing else reaches the socket
C9Write ==
    /\ conn.wait.kind = "send" /\ conn'.wait # conn.wait =>
           \/ wire_out' = Append(wire_out, conn.wait.msg) /\ conn'.wait = NoWait
           \/ wire_out' = wire_out /\ conn'.state = "stopped"
    /\ wire_out' # wire_out => conn.wait.kind = "send"

\* the write of a pong(n) is started by a ping(n) only
C9Only ==
    \A n \in Nonces :
        conn'.wait = WaitSend(NetworkMessage_Pong(n)) /\ conn.wait # conn'.wait =>
            conn_call' = Call("msg", NetworkMessage_Ping(n))

\* C9: every ping(n) the actor handles makes it write exactly one pong(n) to
\* the socket, whatever requests are pending, and sends nothing to a recipient.
C9 == [][C9Handle /\ C9Write /\ C9Only]_vars

\* both pings were answered, in order, while a GetBlocksRequest was pending
C9Witness ==
    /\ conn.waiting_blocks.some
    /\ Len(wire_out) = 3
    /\ wire_out[2] = NetworkMessage_Pong(1)
    /\ wire_out[3] = NetworkMessage_Pong(0)
    /\ delivered = <<>>

\* the actor handles a headers message of the stream while waiting_headers is None
UnrequestedHeaders ==
    /\ stream_in # <<>>
    /\ stream_in' = Tail(stream_in)
    /\ Head(stream_in).cmd = "headers"
    /\ ~conn.waiting_headers.some

C10Step ==
    /\ UnrequestedHeaders =>
           /\ conn'.state = "stopped"
           /\ ~conn'.waiting_headers.some
           /\ delivered' = delivered
           /\ wire_out' = wire_out
           /\ conn_mailbox' = conn_mailbox
           /\ notified' = notified
           /\ UNCHANGED <<bc_nodes, active_nodes>>
    /\ conn.state = "stopped" =>
           /\ conn'.state = "stopped"
           /\ delivered' = delivered \/ delivered' = Tail(delivered)

\* C10: a headers message that arrives while waiting_headers is None stops
\* the actor; the headers are sent to no recipient, then or later, and the
\* BlockChain is not modified.
C10 == [][C10Step]_vars

\* a headers message found waiting_headers None and stopped the actor while
\* the job runs; nothing was delivered to the job or to notify
C10Witness ==
    /\ conn.state = "stopped"
    /\ conn_call.kind = "msg"
    /\ conn_call.val.cmd = "headers"
    /\ sync.state = "running"
    /\ delivered = <<>>
    /\ notified = <<>>

\* the step is the handling of a message of the peer, of a request
ConnHandlesMsg == conn_events' # conn_events /\ conn_call'.kind = "msg"
ConnHandlesReq == conn_events' # conn_events /\ conn_call'.kind = "req"

\* the number of the elements of seq equal to x
RECURSIVE Count(_, _)
Count(seq, x) ==
    IF seq = <<>> THEN 0
    ELSE (IF Head(seq) = x THEN 1 ELSE 0) + Count(Tail(seq), x)

\* the hashes of seq occur in rest as often, but for one occurrence less of hash
OneLess(seq, rest, hash) ==
    /\ Len(rest) = Len(seq) - 1
    /\ \A i \in 1..Len(seq) :
           Count(rest, seq[i]) = Count(seq, seq[i]) - (IF seq[i] = hash THEN 1 ELSE 0)

\* a block whose hash is in the pending list goes to the recipient of the
\* request and one occurrence of its hash leaves the list; the slot is
\* cleared when and only when the list is empty then
C11Forward ==
    ConnHandlesMsg /\ conn_call'.val.cmd = "block" /\ conn.waiting_blocks.some =>
        LET waiting == conn.waiting_blocks.val
            block == conn_call'.val.payload
            hash == header_bitcoin_hash(block)
        IN (\E i \in 1..Len(waiting.block_hashes) : waiting.block_hashes[i] = hash) =>
               /\ delivered' = Append(delivered, Send(waiting.addr, BlockResponse(block)))
               /\ conn'.state = "running"
               /\ IF Len(waiting.block_hashes) = 1
                  THEN ~conn'.waiting_blocks.some
                  ELSE /\ conn'.waiting_blocks.some
                       /\ conn'.waiting_blocks.val.addr = waiting.addr
                       /\ OneLess(waiting.block_hashes,
                                  conn'.waiting_blocks.val.block_hashes, hash)

\* a BlockResponse is delivered only for a hash of the pending list, and a
\* pending list changes only by the handling of a block
C11Only ==
    /\ (delivered' # delivered /\ delivered'[Len(delivered')].msg.res = "BlockResponse") =>
           /\ conn.waiting_blocks.some
           /\ delivered'[Len(delivered')].to = conn.waiting_blocks.val.addr
           /\ \E i \in 1..Len(conn.waiting_blocks.val.block_hashes) :
                  conn.waiting_blocks.val.block_hashes[i] =
                      header_bitcoin_hash(delivered'[Len(delivered')].msg.val)
    /\ (conn.waiting_blocks.some /\ conn'.waiting_blocks # conn.waiting_blocks) =>
           ConnHandlesMsg /\ conn_call'.val.cmd = "block"

\* with an empty slot a GetBlocksRequest is accepted: getdata is written and
\* the slot holds the request
C11Accept ==
    (ConnHandlesReq /\ conn_call'.val.req = "GetBlocksRequest"
         /\ ~conn.waiting_blocks.some) =>
        /\ conn'.wait.kind = "send"
        /\ conn'.wait.msg.cmd = "getdata"
        /\ conn'.waiting_blocks =
               Some(WaitingBlocks(conn_call'.val.addr, conn_call'.val.block_hashes))

\* C11: for a pending GetBlocksRequest every arriving block whose hash is
\* still in the pending list is sent to the request's recipient and one
\* occurrence of its hash is removed; the slot is cleared exactly when the
\* list becomes empty, so at most |S| BlockResponses are delivered, each with
\* a hash of S, and then a new GetBlocksRequest is accepted.
C11 == [][C11Forward /\ C11Only /\ C11Accept]_vars

\* a request for [H1, H1] got the block H1 twice, and the next request was accepted
C11Witness ==
    /\ Len(delivered) = 2
    /\ delivered[1] = Send("a", BlockResponse(PeerHeader(1)))
    /\ delivered[2] = Send("a", BlockResponse(PeerHeader(1)))
    /\ conn.waiting_blocks.some
    /\ conn.waiting_blocks.val.addr = "b"
    /\ conn.wait.kind = "send"

\* the hash is one of the pending list of the actor c
PendingHash(c, hash) ==
    /\ c.waiting_blocks.some
    /\ \E i \in 1..Len(c.waiting_blocks.val.block_hashes) :
           c.waiting_blocks.val.block_hashes[i] = hash

\* a block whose hash is not in the pending list is sent to no one and stops
\* the actor; a stopped actor stays stopped and sends nothing to a recipient
C12Step ==
    /\ (ConnHandlesMsg /\ conn_call'.val.cmd = "block" /\ conn.waiting_blocks.some
            /\ ~PendingHash(conn, header_bitcoin_hash(conn_call'.val.payload))) =>
           /\ conn'.state = "stopped"
           /\ delivered' = delivered
           /\ wire_out' = wire_out
    /\ conn.state = "stopped" =>
           /\ conn'.state = "stopped"
           /\ delivered' = delivered

\* C12: with a GetBlocks request pending for [H1, H2], the block H1 is
\* delivered to the request's recipient; the block H3 that follows is
\* delivered to no one and stops the connection as misbehaving, and no block
\* is delivered after that.
C12 == [][C12Step]_vars /\ [][C11Forward]_vars

\* [H1, H2] was requested by a; H1 arrived and was delivered, H3 arrived and
\* stopped the actor
C12Witness ==
    /\ conn.state = "stopped"
    /\ conn_call = Call("msg", NetworkMessage_Block(PeerHeader(3)))
    /\ delivered = <<Send("a", BlockResponse(PeerHeader(1)))>>
    /\ wire_out = <<NetworkMessage_GetData(<<Inventory(PeerHash(1)), Inventory(PeerHash(2))>>)>>

\* C13: a block message that arrives while waiting_blocks is None stops the
\* connection as misbehaving.
C13AsStated ==
    [][(ConnHandlesMsg /\ conn_call'.val.cmd = "block" /\ ~conn.waiting_blocks.some) =>
           conn'.state = "stopped"]_vars

\* a further request of a kind that is pending changes nothing and writes nothing
C14Dropped ==
    /\ (ConnHandlesReq /\ conn_call'.val.req = "GetHeadersRequest"
            /\ conn.waiting_headers.some) =>
           conn' = conn /\ wire_out' = wire_out /\ delivered' = delivered
    /\ (ConnHandlesReq /\ conn_call'.val.req = "GetBlocksRequest"
            /\ conn.waiting_blocks.some) =>
           conn' = conn /\ wire_out' = wire_out /\ delivered' = delivered

\* the headers that arrive go to the recipient of the pending request
C14Reply ==
    (ConnHandlesMsg /\ conn_call'.val.cmd = "headers" /\ conn.waiting_headers.some) =>
        delivered' = Append(delivered, Send(conn.waiting_headers.val.addr,
                                            HeadersResponse(conn_call'.val.payload)))

\* C14: while a GetHeaders (a GetBlocks) request is pending, a further request
\* of the same kind is dropped: no getheaders (getdata) is written and the
\* pending slot is unchanged, so the reply goes to the first requester.
C14 == [][C14Dropped /\ C14Reply /\ C11Forward]_vars

\* the GetHeadersRequest of b was dropped while that of a is pending
C14Witness ==
    /\ conn_call = Call("req", GetHeadersRequest(<<PeerHash(0)>>, "b"))
    /\ conn.waiting_headers = Some(WaitingHeaders("a"))
    /\ wire_out = <<NetworkMessage_GetHeaders(<<PeerHash(0)>>)>>
    /\ Ready(conn)

\* C15: while waiting_addrs is occupied, a further GetAddrsRequest sends no
\* second getaddr and does not replace the pending recipient.
C15AsStated ==
    [][(ConnHandlesReq /\ conn_call'.val.req = "GetAddrsRequest"
            /\ conn.waiting_addrs.some) =>
           /\ conn'.waiting_addrs = conn.waiting_addrs
           /\ conn'.wait = conn.wait
           /\ wire_out' = wire_out]_vars

\* C16: after a SubscribeInv of a caller, every inv message received from
\* the peer is sent to that subscriber.
C16AsStated ==
    [][\A addr \in Callers :
           (conn_call = Call("req", SubscribeInv(addr)) /\ ConnHandlesMsg
                /\ conn_call'.val.cmd = "inv") =>
               delivered' = Append(delivered, Send(addr, PublishInv(conn_call'.val.payload)))]_vars

(***************************************************************************)
(* Properties of the socket.                                               *)
(***************************************************************************)
\* what was received is a version, a verack
GotVersion(r) == r.ok /\ r.msg.cmd = "version"
GotVerack(r) == r.ok /\ r.msg.cmd = "verack"

C17Inv ==
    \* the local version is sent before anything is read
    /\ hs.pc = "send_version" => hs.recvd = <<>> /\ hs_out = <<>>
    /\ hs.recvd # <<>> => hs.recvd[1].sent = 1 /\ hs_out[1] = NetworkMessage_Version
    \* verack is sent only after the remote version was received
    /\ (\E i \in 1..Len(hs_out) : hs_out[i] = NetworkMessage_Verack) =>
           /\ hs.recvd # <<>>
           /\ GotVersion(hs.recvd[1])
           /\ hs_out = <<NetworkMessage_Version, NetworkMessage_Verack>>
    \* a HandshakedSocket exists if and only if the first message received is
    \* a version and the first one received after the verack was sent is a verack
    /\ hs.pc = "done" <=>
           /\ Len(hs.recvd) = 2
           /\ GotVersion(hs.recvd[1])
           /\ hs.recvd[2].sent = 2
           /\ GotVerack(hs.recvd[2])
    \* any other message, or an error, at either place fails the handshake,
    \* and nothing is sent after it
    /\ (Len(hs.recvd) >= 1 /\ ~GotVersion(hs.recvd[1])) =>
           hs.pc = "failed" /\ hs_out = <<NetworkMessage_Version>> /\ Len(hs.recvd) = 1
    /\ (Len(hs.recvd) = 2 /\ ~GotVerack(hs.recvd[2])) =>
           hs.pc = "failed" /\ hs_out = <<NetworkMessage_Version, NetworkMessage_Verack>>
    /\ Len(hs.recvd) <= 2
    \* without HandshakedSocket there is no Connection that reads or writes
    /\ hs.pc # "done" => conn = Connection_new /\ wire_out = <<>>

\* a failed handshake reads and sends nothing more
C17Final == hs.pc = "failed" => UNCHANGED <<hs, hs_out, sock_in>>

\* C17: begin_handshake sends the local version before anything is read; a
\* HandshakedSocket is produced if and only if the first message received is
\* a version and the first one received after the local verack was sent is a
\* verack; verack is sent only after the remote version was received; any
\* other message at either place (a ping too) fails the handshake, and then
\* no HandshakedSocket exists and nothing further is sent.
C17 == []C17Inv /\ [][C17Final]_vars

\* the version of the peer was answered by verack, then a ping came instead
\* of the verack: the handshake failed
C17Witness ==
    /\ hs.pc = "failed"
    /\ Len(hs.recvd) = 2
    /\ hs.recvd[2].ok
    /\ hs.recvd[2].msg = NetworkMessage_Ping(1)
    /\ hs_out = <<NetworkMessage_Version, NetworkMessage_Verack>>

\* the Connection takes an item of its stream
StreamTaken == hs.pc = "done" /\ sock_ret' # sock_ret

\* C18: a frame with correct magic and checksum and an unrecognized command
\* is discarded: the connection keeps running, its pending requests stay
\* pending, and the frames that follow are left to be decoded.
C18AsStated ==
    [][(StreamTaken /\ sock_ret'.err = "UnrecognizedNetworkCommand") =>
           /\ conn'.state = "running"
           /\ Pending(conn') = Pending(conn)]_vars

\* the checks of recv_msg on the frame at the head of the tokens
C19Step ==
    (sock_in # <<>> /\ sock_ret' # sock_ret) =>
        LET header == Head(sock_in)
            payload == SubSeq(sock_in, 2, 1 + header.payload_size)
        IN IF header.magic # NetworkMagic
           THEN /\ sock_ret'.err = "UnexpectedNetworkMagic"
                /\ sock_ret'.payload_read = 0
                /\ sock_in' = Tail(sock_in)
           ELSE /\ sock_ret'.payload_read = header.payload_size
                /\ sock_in' = SubSeq(sock_in, 2 + header.payload_size, Len(sock_in))
                /\ IF header.checksum # sha2_checksum(payload)
                   THEN sock_ret'.err = "InvalidChecksum"
                   ELSE IF header.command_name \notin EmptyCommands \cup PayloadCommands
                   THEN sock_ret'.err = "UnrecognizedNetworkCommand"
                   ELSE sock_ret'.err \in {"none", "Decode"}
                /\ sock_ret'.ok <=> sock_ret'.err = "none"

\* C19: recv_msg checks magic, checksum, command in this order and the first
\* check that fails decides the error: a wrong magic fails before a payload
\* byte is read; else exactly payload_size bytes are read and a wrong
\* checksum fails as such even with an unknown command; a message is
\* returned only when the three checks pass.
C19 == [][C19Step]_vars

\* a frame with an unknown command and a wrong checksum failed on the checksum
C19Witness ==
    /\ sock_ret.header.magic = NetworkMagic
    /\ sock_ret.header.command_name = "sendheaders"
    /\ sock_ret.header.checksum # sha2_checksum(<<1>>)
    /\ sock_ret.payload_read = 1
    /\ sock_ret.err = "InvalidChecksum"

(***************************************************************************)
(* More properties of BlockChain.                                          *)
(***************************************************************************)
\* C20: try_add of a header whose hash is that of a block of the tree
\* returns Ok(()) and leaves the nodes, their edges and the active chain
\* unchanged; stated for the headers whose previous block is in the tree too.
C20AsStated ==
    [][(/\ \E n \in 1..Len(bc_nodes) :
               bitcoin_hash(bc_nodes[n].block) = header_bitcoin_hash(bc_call')
        /\ \E n \in 1..Len(bc_nodes) :
               bitcoin_hash(bc_nodes[n].block) = bc_call'.prev_blockhash) =>
           /\ bc_ret' = Ok
           /\ UNCHANGED <<bc_nodes, active_nodes>>]_vars

(***************************************************************************)
(* More properties of BlockChainMut.                                       *)
(***************************************************************************)
\* the store was given one chain of blocks and nothing else: each block after
\* the start block names the block given before it
GivenLinearChain ==
    \A n \in 2..Len(bt_nodes) :
        bt_nodes[n].block.header.prev_blockhash = bitcoin_hash(bt_nodes[n - 1].block)

\* C22: after with_start(b1) and try_add of b2..b8, one chain of 8 blocks,
\* the head was moved to the stable chain by the block 7 levels above it:
\* stable_chain.len() is 1 and unstable_chain.len() is 7.
C22AsStated ==
    (~bcm_panic /\ Len(bt_nodes) = 8 /\ GivenLinearChain) =>
        /\ Len(stable_chain) = 1
        /\ len = 7

\* the nodes of the unstable tree
TreeNodes == Reachable(bt_nodes, head)

\* C23: the sequence of iter() is hash-linked across the boundary of the
\* stable chain and the unstable tree: the head of the tree names the last
\* stable block as its previous block, or is the start block while nothing
\* is stable; and no block is both in the stable chain and in the tree.
C23 ==
    /\ Len(stable_chain) > 0 =>
           bt_nodes[head].block.header.prev_blockhash =
               bitcoin_hash(stable_chain[Len(stable_chain)])
    /\ Len(stable_chain) = 0 => bt_nodes[head].block = StoredBlock(StartHeader)
    /\ BlockChainMut_iter[Len(stable_chain) + 1] = bt_nodes[head].block
    /\ \A n \in TreeNodes : \A i \in 1..Len(stable_chain) :
           bitcoin_hash(bt_nodes[n].block) # bitcoin_hash(stable_chain[i])

\* C23 witness: two blocks are stable and the tree holds a block outside the
\* best chain.
C23Witness ==
    /\ Len(stable_chain) >= 2
    /\ \E n \in TreeNodes :
           /\ ~bt_nodes[n].freed
           /\ \A i \in 1..Len(BlockTree_iter(bt_nodes, last)) :
                  BlockTree_iter(bt_nodes, last)[i] # n

\* C24: BlockChainMut::len() is the number of blocks iter() yields, also
\* after headers of competing branches were added and after branches were
\* pruned.
C24AsStated == ~bcm_panic => BlockChainMut_len = Len(BlockChainMut_iter)

(***************************************************************************)
(* The locator of the active chain.                                        *)
(***************************************************************************)
\* C25: locator_hashes_vec returns the hashes of the last min(10, len) blocks
\* of the active chain, the hash of the tip first and then in strictly
\* decreasing height; every hash is that of a block of the active chain.
C25 ==
    ~bc_panic =>
    LET locator == locator_hashes_vec(bc_nodes, active_nodes)
        n == Len(active_nodes)
        block(i) == bc_nodes[active_nodes[(n - i) + 1]].block
    IN /\ Len(locator) = (IF n < 10 THEN n ELSE 10)
       /\ locator[1] = bitcoin_hash(latest_block(bc_nodes, active_nodes))
       /\ \A i \in 1..Len(locator) : locator[i] = bitcoin_hash(block(i))
       /\ \A i \in 2..Len(locator) : block(i).height < block(i - 1).height
       /\ \A i \in 1..Len(locator) : \E j \in 1..n :
              locator[i] = bitcoin_hash(bc_nodes[active_nodes[j]].block)

\* C25 witness: the active chain is longer than the locator, in a tree that
\* has a block outside the active chain.
C25Witness ==
    /\ ~bc_panic
    /\ Len(active_nodes) > 10
    /\ Len(locator_hashes_vec(bc_nodes, active_nodes)) = 10
    /\ \E n \in 1..Len(bc_nodes) : \A i \in 1..Len(active_nodes) : active_nodes[i] # n

(***************************************************************************)
(* Properties of both stores.                                              *)
(***************************************************************************)
\* the header of the call names the tip of the BlockChain as its parent
ChainTipExtended ==
    /\ chainVars' # chainVars
    /\ bc_call'.prev_blockhash = bitcoin_hash(latest_block(bc_nodes, active_nodes))

\* the header of the call names the tip of the BlockChainMut as its parent
MutTipExtended ==
    /\ mutVars' # mutVars
    /\ bcm_call'.prev_blockhash = bitcoin_hash(BlockChainMut_latest_block)

C21Chain ==
    ChainTipExtended =>
        /\ bc_ret' = Ok
        /\ ~bc_panic'
        /\ ActiveChain_len(bc_nodes', active_nodes') =
               ActiveChain_len(bc_nodes, active_nodes) + 1
        /\ ActiveChain_iter(bc_nodes', active_nodes') =
               Append(ActiveChain_iter(bc_nodes, active_nodes),
                      BlockData(bc_call', latest_block(bc_nodes, active_nodes).height + 1))

C21Mut ==
    MutTipExtended =>
        /\ bcm_ret' = Ok
        /\ ~bcm_panic'
        /\ BlockChainMut_len' = BlockChainMut_len + 1
        /\ BlockChainMut_iter' = Append(BlockChainMut_iter, StoredBlock(bcm_call'))

\* C21: try_add of a header whose prev_blockhash is the hash of the tip, on
\* a BlockChain or on a BlockChainMut, succeeds; the length grows by one and
\* iteration yields the chain of before followed by the new header.
C21 == [][C21Chain /\ C21Mut]_vars

\* C21 witness: the tip of a BlockChainMut was extended by the last call,
\* which moved the head to the stable chain.
C21Witness ==
    /\ ~bcm_panic
    /\ bcm_ret = Ok
    /\ Len(stable_chain) >= 1
    /\ last = Len(bt_nodes)
    /\ bcm_call = bt_nodes[last].block.header
    /\ bt_nodes[head].prev = NoNode
    /\ Len(prev_nodes(bt_nodes, last)) = ENOUGH_CONFIRMATION

\* the tip of a BlockChain that holds a fork was extended by the last call
C21WitnessChain ==
    /\ ~bc_panic
    /\ bc_ret = Ok
    /\ Len(active_nodes) >= 3
    /\ active_nodes[Len(active_nodes)] = Len(bc_nodes)
    /\ active_nodes[Len(active_nodes) - 1] = bc_nodes[Len(bc_nodes)].prev
    /\ \E n \in 1..Len(bc_nodes) : \A i \in 1..Len(active_nodes) : active_nodes[i] # n

(***************************************************************************)
(* Properties of the futures of peer/peer.rs.                              *)
(***************************************************************************)
\* sync_blockchain takes a headers message off the socket
SyncBlockchainTakes ==
    /\ job.op = "sync_blockchain"
    /\ job.pc = "recv_headers"
    /\ stream_in # <<>>
    /\ Head(stream_in).cmd = "headers"
    /\ stream_in' = Tail(stream_in)

\* try_add accepts every header of the message sync_blockchain takes
ReplyAccepted ==
    \A k \in 1..Len(Head(stream_in).payload) : ~RejectedAt(Head(stream_in).payload, k)

\* C28: Peer::sync_blockchain resolves with Ok as soon as a headers reply
\* holds a number of headers other than MAX_HEADERS_IN_MSG, zero included,
\* all accepted by try_add; it sends another getheaders, with the locator of
\* the updated chain, after a reply of exactly MAX_HEADERS_IN_MSG headers.
C28AsStated ==
    [][SyncBlockchainTakes /\ ReplyAccepted =>
           IF Len(Head(stream_in).payload) # MAX_HEADERS_IN_MSG
           THEN /\ job_ret' = Some(JobOk("blockchain"))
                /\ job'.pc = "done"
           ELSE /\ job_ret' = None
                /\ job'.pc = "send"
                /\ job'.out = NetworkMessage_GetHeaders(
                                  locator_hashes_vec(bc_nodes', active_nodes'))]_vars

\* the hashes of the inventories of the getdata messages among msgs, in order
RECURSIVE GetDataHashes(_)
GetDataHashes(msgs) ==
    IF msgs = <<>> THEN <<>>
    ELSE (IF Head(msgs).cmd = "getdata"
          THEN [i \in 1..Len(Head(msgs).payload) |-> Head(msgs).payload[i].hash]
          ELSE <<>>) \o GetDataHashes(Tail(msgs))

\* the hashes of the blocks download_full_blocks was asked for
AskedHashes == [i \in 1..Len(job.arg) |-> job.arg[i].hash]

IsPrefix(a, b) == Len(a) <= Len(b) /\ a = SubSeq(b, 1, Len(a))

\* C29: the getdata messages of download_full_blocks hold at most
\* MAX_BLOCKS_IN_MSG inventories each and together name the requested blocks
\* in request order, without gap or repetition; a batch is sent only after
\* every block of the batches before was received; and the future resolves
\* with one full block per requested BlockData, in request order, with the
\* requested block's hash and height.
C29 ==
    job.op = "download_full_blocks" =>
        /\ \A i \in 1..Len(job.sent) :
               job.sent[i].cmd = "getdata" => Len(job.sent[i].payload) <= MAX_BLOCKS_IN_MSG
        /\ IsPrefix(GetDataHashes(job.sent), AskedHashes)
        /\ (job.pc = "send" /\ job.out.cmd = "getdata") =>
               /\ Len(job.out.payload) <= MAX_BLOCKS_IN_MSG
               /\ Len(job.full_blocks_buf) = Len(GetDataHashes(job.sent))
               /\ IsPrefix(GetDataHashes(job.sent) \o GetDataHashes(<<job.out>>), AskedHashes)
               /\ \A i \in 1..Len(job.full_blocks_buf) :
                      header_bitcoin_hash(job.full_blocks_buf[i].block) = AskedHashes[i]
        /\ (job_ret.some /\ job_ret.val.ok) =>
               /\ GetDataHashes(job.sent) = AskedHashes
               /\ Len(job_ret.val.val) = Len(job.arg)
               /\ \A i \in 1..Len(job.arg) :
                      /\ header_bitcoin_hash(job_ret.val.val[i].block) = job.arg[i].hash
                      /\ job_ret.val.val[i].height = job.arg[i].height

\* C29 witness: three blocks were asked for, one of them twice, and were
\* received in two batches with a ping answered in between.
C29Witness ==
    /\ job.op = "download_full_blocks"
    /\ job_ret.some /\ job_ret.val.ok
    /\ Len(job.arg) = 3
    /\ job.arg[1] = job.arg[3]
    /\ job.arg[1] # job.arg[2]
    /\ Len(job.sent) = 3
    /\ job.sent[2].cmd = "pong"

(***************************************************************************)
(* Properties of the listener of process/listen.rs.                        *)
(***************************************************************************)
\* a message with the command is written to the socket in this step
Written(cmd) ==
    /\ Len(wire_out') = Len(wire_out) + 1
    /\ wire_out'[Len(wire_out')].cmd = cmd

\* the hashes of the newest blocks of the chain, at most 10, newest first
NewestHashes ==
    LET chain == BlockChainMut_iter
        n == IF Len(chain) < 10 THEN Len(chain) ELSE 10
    IN [i \in 1..n |-> chain[Len(chain) + 1 - i].hash]

\* the getheaders of a step is written after an inv was handed to the step,
\* and carries the locator of the chain
ListenGetHeadersAfterInv ==
    Written("getheaders") =>
        /\ job.got # <<>>
        /\ job.got[1].cmd = "inv"
        /\ wire_out'[Len(wire_out')].payload.locator_hashes = NewestHashes

\* the blocks the store holds
HeldHeaders == {bt_nodes[n].block.header : n \in {k \in 1..Len(bt_nodes) : ~bt_nodes[k].freed}}

\* the getdata of a step is written after an inv and then headers were handed
\* to the step, every header is in the store, the last call of try_add was
\* for the last header and returned Ok, and the getdata asks for the hashes
\* of the headers in their order
ListenGetDataAfterHeaders ==
    Written("getdata") =>
        /\ Len(job.got) = 2
        /\ job.got[1].cmd = "inv"
        /\ job.got[2].cmd = "headers"
        /\ LET headers == job.got[2].payload IN
           /\ headers # <<>>
           /\ \A i \in 1..Len(headers) : headers[i] \in HeldHeaders
           /\ bcm_ret = Ok
           /\ bcm_call = headers[Len(headers)]
           /\ wire_out'[Len(wire_out')].payload =
                  [i \in 1..Len(headers) |-> Inventory(header_bitcoin_hash(headers[i]))]

\* a header of the list follows neither a block of the store nor a header
\* before it in the list
HasOrphan(headers) ==
    \E i \in 1..Len(headers) :
        /\ \A h \in HeldHeaders : header_bitcoin_hash(h) # headers[i].prev_blockhash
        /\ \A k \in 1..(i - 1) : header_bitcoin_hash(headers[k]) # headers[i].prev_blockhash

NoGetData(j) ==
    /\ j.out.cmd # "getdata"
    /\ \A i \in 1..Len(j.sent) : j.sent[i].cmd # "getdata"

FailedWithMisbehaviorPeer(j, ret) ==
    /\ j.pc = "done"
    /\ ret = Some(JobErr("MisbehaviorPeer"))
    /\ NoGetData(j)

\* headers with a header try_add rejects are handed to the step that waits
\* for them: the step fails
ListenRejectedFails ==
    (/\ job.op = "listen"
     /\ job.pc = "wait_recv_headers"
     /\ Len(job'.got) = Len(job.got) + 1
     /\ job'.got[Len(job'.got)].cmd = "headers"
     /\ HasOrphan(job'.got[Len(job'.got)].payload))
    => FailedWithMisbehaviorPeer(job', job_ret')

\* the first message handed to the step was headers or a block: the step
\* has failed; and a step that failed for a rejected header stays so
ListenFirstNotInvFailed ==
    /\ (job.op = "listen" /\ job.got # <<>> /\ job.got[1].cmd \in {"headers", "block"})
           => FailedWithMisbehaviorPeer(job, job_ret)
    /\ (job.op = "listen" /\ Len(job.got) = 2 /\ job.got[2].cmd = "headers"
            /\ job.pc = "done" /\ job_ret = Some(JobErr("MisbehaviorPeer")))
           => NoGetData(job)

\* C30: in a step of the listener, getheaders is written only after an inv
\* was received and carries the locator of the chain; getdata is written
\* only after every header of the reply was accepted by try_add and asks for
\* the hashes of those headers in order; if the first message is headers or
\* a block, or a header is rejected, the step fails with MisbehaviorPeer and
\* no getdata is written
C30 ==
    [][/\ ListenGetHeadersAfterInv
       /\ ListenGetDataAfterHeaders
       /\ ListenRejectedFails
       /\ ListenFirstNotInvFailed']_vars

\* a second step of the listener resolved with the two blocks it asked for,
\* after a first one had added two
C30Witness ==
    /\ job.op = "listen"
    /\ job_ret.some
    /\ job_ret.val.ok
    /\ Len(job_ret.val.val) = 2
    /\ Len(BlockChainMut_iter) = 5
    /\ Len(job.sent) >= 2
    /\ job.sent[1].cmd = "getheaders"
    /\ job.sent[Len(job.sent)].cmd = "getdata"

\* a step of the listener failed for a header the store rejected
C30WitnessRejected ==
    /\ job.op = "listen"
    /\ Len(job.got) = 2
    /\ job.got[2].cmd = "headers"
    /\ job_ret = Some(JobErr("MisbehaviorPeer"))
    /\ Len(bt_nodes) = 2

\* a step of the listener failed for headers that came first
C30WitnessFirst ==
    /\ job.op = "listen"
    /\ job.got # <<>>
    /\ job.got[1].cmd = "headers"
    /\ job_ret = Some(JobErr("MisbehaviorPeer"))
\* the blocks given to Node::recv_block: the next block of the chain, a block
\* that forks from the start block, and a block whose parent is unknown
NodeOffers ==
    {[prev_blockhash |-> BlockChainMut_latest_block.hash, nonce |-> 0],
     [prev_blockhash |-> NullHash, nonce |-> 1],
     [prev_blockhash |-> <<1>>, nonce |-> 0]}

NodeFrame == UNCHANGED <<chainVars, connVars, syncVars, sockVars, jobVars, dm, ibd, mx, act>>

NodeAddSubscriber == Node_add_subscriber /\ NodeFrame /\ UNCHANGED mutVars

NodeReceiverDropped == ReceiverDropped /\ NodeFrame /\ UNCHANGED mutVars

NodeRecvBlock ==
    /\ full_node.n_recv < MaxNodeBlocks
    /\ \E header \in NodeOffers : Node_recv_block(StoredBlock(header))
    /\ NodeFrame

NodeNext == NodeAddSubscriber \/ NodeReceiverDropped \/ NodeRecvBlock

\* a Node on a BlockChainMut that holds its start block
NodeSpecInit == ChainIdle /\ MutInit /\ NetIdle

SpecNode == NodeSpecInit /\ [][NodeNext]_vars

\* the arguments of update: runs of consecutive heights, the empty one too;
\* the data of an entry is the number of the call that brought it
DmArgs ==
    {[i \in 1..n |-> BlockAssociatedData_new(h + i - 1, dm.n_calls)] :
        h \in 0..MaxDmHeight, n \in 0..MaxDmRun}

DmFrame ==
    UNCHANGED <<chainVars, mutVars, connVars, syncVars, sockVars, jobVars,
                full_node, chans, ibd, mx, act>>

DmUpdate ==
    /\ dm.n_calls < MaxDmCalls
    /\ \E datas \in DmArgs : BlockAssociatedDataManager_update(datas)
    /\ DmFrame

DmPop ==
    /\ dm.n_calls < MaxDmCalls
    /\ BlockAssociatedDataManager_pop
    /\ DmFrame

DmNext == DmUpdate \/ DmPop

\* an empty BlockAssociatedDataManager of either build
DmSpecInit ==
    /\ ChainIdle /\ MutInit /\ CoreIdle
    /\ NodeIdle /\ IbdIdle /\ MxIdle /\ ActIdle
    /\ dm \in {BlockAssociatedDataManager_new(overflow_checks) : overflow_checks \in BOOLEAN}

SpecDm == DmSpecInit /\ [][DmNext]_vars

IbdFrame ==
    UNCHANGED <<chainVars, mutVars, connVars, syncVars, sockVars, jobVars,
                full_node, chans, dm, mx, act>>

IbdRequest == IbdRequestGetblocks /\ IbdFrame

IbdRequestFailed == IbdSendFailed /\ IbdFrame

IbdBlock == IbdRecvBlock /\ IbdFrame

IbdPeerServes == IbdPeerServe /\ IbdFrame

IbdNext == IbdRequest \/ IbdRequestFailed \/ IbdBlock \/ IbdPeerServes

\* download_blocks on a chain of 0 to MaxIbdBlocks header-only blocks
IbdSpecInit ==
    /\ ChainIdle /\ MutInit /\ CoreIdle
    /\ NodeIdle /\ DmIdle /\ MxIdle /\ ActIdle
    /\ ibd \in {Ibd_new(n) : n \in 0..MaxIbdBlocks}

SpecIbd == IbdSpecInit /\ [][IbdNext]_vars

MxFrame ==
    UNCHANGED <<chainVars, mutVars, connVars, syncVars, sockVars, jobVars,
                full_node, chans, dm, ibd, act>>

MxCallerLocks == MxGetheadersLock /\ MxFrame

MxCallerSent == MxGetheadersSent /\ MxFrame

MxCallerSendFailed == MxGetheadersSendFailed /\ MxFrame

MxCallerInstalls == MxGetheadersInstall /\ MxFrame

MxCallerGot == MxCallerReceives /\ MxFrame

MxRecvTask == MxRecvProcess /\ MxFrame

MxPeerAnswers == MxPeerReplies /\ MxFrame

MxPeerPing == MxPeerPings /\ MxFrame

MxNext ==
    \/ MxCallerLocks
    \/ MxCallerSent
    \/ MxCallerSendFailed
    \/ MxCallerInstalls
    \/ MxCallerGot
    \/ MxRecvTask
    \/ MxPeerAnswers
    \/ MxPeerPing

\* a Connection, a thread that calls getheaders and waits for each answer,
\* the receive task, and a peer that answers every getheaders
MxSpecInit ==
    /\ ChainIdle /\ MutInit /\ CoreIdle
    /\ NodeIdle /\ DmIdle /\ IbdIdle /\ ActIdle
    /\ MxIdle

SpecMx == MxSpecInit /\ [][MxNext]_vars

ActFrame ==
    UNCHANGED <<chainVars, mutVars, connVars, syncVars, sockVars, jobVars,
                full_node, chans, dm, ibd, mx>>

ActSendMsg ==
    /\ Len(act.sent) < MaxActMails
    /\ ActorRef_try_send_msg(Len(act.sent) + 1)
    /\ ActFrame

\* graceful_shutdown consumes its ActorRef; its clones may still send
ActGracefulShutdown ==
    /\ Len(act.sent) < MaxActMails
    /\ Mail_GracefulShutdown \notin {act.sent[i] : i \in 1..Len(act.sent)}
    /\ ActorRef_graceful_shutdown
    /\ ActFrame

ActReceives == ActorTaskReceives /\ ActFrame

ActHandled == ActorHandled /\ ActFrame

ActFailed == ActorFailed /\ ActFrame

ActNext == ActSendMsg \/ ActGracefulShutdown \/ ActReceives \/ ActHandled \/ ActFailed

\* an actor that was spawned, and the holders of its ActorRef
ActSpecInit ==
    /\ ChainIdle /\ MutInit /\ CoreIdle
    /\ NodeIdle /\ DmIdle /\ IbdIdle /\ MxIdle
    /\ ActIdle

SpecAct == ActSpecInit /\ [][ActNext]_vars

(***************************************************************************)
(* More properties of Connection.                                          *)
(***************************************************************************)
\* the actor handles an event of its mailbox or its stream in this step
ConnHandlesEvent == conn_events' # conn_events

\* an event makes the actor start the write of a message: no write is in
\* flight before, and the message is not on the socket yet
C31Started ==
    (conn'.wait.kind = "send" /\ conn'.wait # conn.wait) =>
        /\ ConnHandlesEvent
        /\ conn.wait = NoWait
        /\ wire_out' = wire_out

\* while the message of an event is not on the socket, no later event is
\* handled, and what reaches the socket next is that message
C31InFlight ==
    conn.wait.kind = "send" =>
        /\ ~ConnHandlesEvent
        /\ \/ wire_out' = Append(wire_out, conn.wait.msg) /\ conn'.wait = NoWait
           \/ wire_out' = wire_out /\ conn'.wait = NoWait /\ conn'.state = "stopped"
           \/ wire_out' = wire_out /\ conn' = conn

\* the message on its way is the pong of the ping handled last
C31Pong ==
    \A n \in Nonces :
        (ConnHandlesEvent /\ conn_call' = Call("msg", NetworkMessage_Ping(n))) =>
            conn'.wait = WaitSend(NetworkMessage_Pong(n))

\* nothing reaches the socket but the message on its way
C31Socket == wire_out' # wire_out => conn.wait.kind = "send"

\* C31: once a ping has been processed its pong is written to the socket
\* before any message produced by an event processed later; the messages
\* appear on the socket in the order in which their events were processed
C31 == [][C31Started /\ C31InFlight /\ C31Pong /\ C31Socket]_vars

\* a ping and then a GetHeadersRequest were processed and their messages are
\* on the socket in that order, and the pong of a second ping is on its way
C31Witness ==
    /\ Len(wire_out) = 2
    /\ wire_out[1] = NetworkMessage_Pong(1)
    /\ wire_out[2].cmd = "getheaders"
    /\ conn.wait = WaitSend(NetworkMessage_Pong(0))

\* C34: every pending GetBlocks slot is eventually released on a live
\* connection, so that a later GetBlocksRequest is transmitted
C34AsStated == conn.waiting_blocks.some ~> (~conn.waiting_blocks.some \/ conn.state = "stopped")

\* write_socket is None only while a write is in flight or after the context
\* was stopped, and neither expect("BUG!!") nor unwrap() has failed
C39Socket ==
    /\ ~conn.panic
    /\ ~conn.write_socket => (conn.wait.kind = "send" \/ conn.state = "stopped")

\* no handler runs while write_socket is None
C39NoHandler == ~conn.write_socket => ~ConnHandlesEvent

\* C39: write_socket is None only while a send started by send_p2p_msg is in
\* flight (or the context was stopped, by a failed send or a Disconnect), no
\* handler runs during that time, and so the expect of send_p2p_msg and the
\* unwrap of the Disconnect handler never fail
C39 == [][C39Socket' /\ C39NoHandler]_vars

\* a write was completed and the socket put back, a later write failed, and
\* the callers and the peer had more to send
C39Witness ==
    /\ conn_call.kind = "send_failed"
    /\ ~conn.write_socket
    /\ conn.state = "stopped"
    /\ Len(wire_out) = 1
    /\ conn_events < MaxConnEvents
(***************************************************************************)
(* The unstable tree of BlockChainMut after pruning.                       *)
(***************************************************************************)
\* the nodes of the heap that were freed
FreedNodes == {n \in 1..Len(bt_nodes) : bt_nodes[n].freed}

\* C36: pruning at stabilization never frees the active tip: after every
\* try_add, last is a live node reachable from head by child edges, head has
\* no parent, and every freed node is unreachable from head
C36 ==
    /\ ~bt_nodes[last].freed
    /\ last \in Reachable(bt_nodes, head)
    /\ ~bt_nodes[head].freed
    /\ bt_nodes[head].prev = NoNode
    /\ FreedNodes \cap Reachable(bt_nodes, head) = {}

\* C36 witness: a block was stabled, a block of a fork was freed with it, and
\* the tip is the block added last
C36Witness ==
    /\ Len(stable_chain) >= 1
    /\ \E n \in FreedNodes : \E i \in 1..Len(bt_nodes[n].block.hash) :
           bt_nodes[n].block.hash[i] # 0
    /\ last = Len(bt_nodes)
    /\ bcm_ret = Ok

\* the number of parent edges from the node up to a node without parent
RECURSIVE Levels(_)
Levels(n) == IF bt_nodes[n].prev = NoNode THEN 0 ELSE 1 + Levels(bt_nodes[n].prev)

\* C37: after every try_add no node of the tree lies more than
\* ENOUGH_CONFIRMATION levels below the head, panic!("Never comes here!!")
\* was not reached, and the active chain holds at most ENOUGH_CONFIRMATION + 1
\* blocks
C37 ==
    /\ ~bcm_panic
    /\ \A n \in Reachable(bt_nodes, head) : Levels(n) <= ENOUGH_CONFIRMATION
    /\ Levels(last) + 1 <= ENOUGH_CONFIRMATION + 1

\* C37 witness: a block was stabled, the tip lies ENOUGH_CONFIRMATION levels
\* below the head, and the tree holds a block off the active chain
C37Witness ==
    /\ Len(stable_chain) >= 1
    /\ Levels(last) = ENOUGH_CONFIRMATION
    /\ \E n \in Reachable(bt_nodes, head) :
           \A i \in 1..Len(BlockTree_iter(bt_nodes, last)) : BlockTree_iter(bt_nodes, last)[i] # n
(***************************************************************************)
(* Node: what recv_block publishes.                                        *)
(***************************************************************************)
\* how often the channel c is in the list of subscribers
TimesSubscribed(subscribers, c) ==
    Cardinality({i \in 1..Len(subscribers) : subscribers[i] = c})

\* the block was accepted: Ack, every open channel was sent the new chain
\* once and stays subscribed once, every closed one was sent nothing and is
\* not subscribed any more
C32Accepted ==
    /\ full_node'.ret = Some("Ack")
    /\ \A c \in 1..Len(chans) :
          IF chans[c].open
          THEN /\ chans'[c].got = <<BlockChainMut_iter'>>
               /\ TimesSubscribed(full_node'.subscribers, c) = 1
          ELSE /\ chans'[c].got = <<>>
               /\ TimesSubscribed(full_node'.subscribers, c) = 0

\* the block was rejected: Ban, nothing was sent, the list is as it was
C32Rejected ==
    /\ full_node'.ret = Some("Ban")
    /\ full_node'.subscribers = full_node.subscribers
    /\ \A c \in 1..Len(chans) : chans'[c].got = <<>>

\* C32: after a recv_block whose block the chain accepts, every subscriber
\* whose channel is open was sent exactly one snapshot of the updated chain
\* and is still subscribed, and the subscribers whose send failed are
\* removed; a recv_block whose block is rejected publishes nothing and
\* returns Ban.
C32 ==
    [][full_node'.n_recv # full_node.n_recv =>
          IF bcm_ret' = Ok THEN C32Accepted ELSE C32Rejected]_vars

\* the first of three subscribers had dropped its receiver when a block was
\* accepted: swap_remove put the third in its place, and the second and the
\* third were sent the chain
C32Witness ==
    /\ full_node.ret = Some("Ack")
    /\ Len(chans) = 3
    /\ ~chans[1].open /\ chans[2].open /\ chans[3].open
    /\ full_node.subscribers = <<3, 2>>
    /\ chans[2].got = <<BlockChainMut_iter>>
    /\ chans[3].got = <<BlockChainMut_iter>>

\* a block was rejected while a subscriber was listening
C32WitnessBan ==
    /\ full_node.ret = Some("Ban")
    /\ \E c \in 1..Len(chans) : chans[c].open /\ chans[c].got = <<>>

(***************************************************************************)
(* BlockAssociatedDataManager: heights after update and pop.               *)
(***************************************************************************)
\* entry i has the height minimum_height() + i
DmConsecutive ==
    \A i \in 1..Len(dm.datas) : dm.datas[i].height = minimum_height(dm.datas) + (i - 1)

\* the old entries below the first height of the argument
DmKept(before, arg) ==
    SelectSeq(before, LAMBDA e : e.height < arg[1].height)

\* the last call was an update that returned: the manager holds the old
\* entries below the first new height, then the new entries
DmUpdated ==
    (dm.call.some /\ dm.call.val.op = "update" /\ ~dm.panic) =>
        dm.datas = DmKept(dm.call.val.before, dm.call.val.arg) \o dm.call.val.arg

\* a panic: the argument was empty, or its first height is above the
\* maximum height + 1
DmPanicsOnlyAsDocumented ==
    dm.panic =>
        \/ dm.call.val.arg = <<>>
        \/ /\ dm.call.val.before # <<>>
           /\ dm.call.val.arg[1].height >
                  dm.call.val.before[Len(dm.call.val.before)].height + 1

\* C33: with update arguments that are not empty and hold consecutive
\* heights, the entries have consecutive heights after every update and pop,
\* an update keeps the old entries below the first new height followed by
\* the new entries, and update panics only for an empty argument or one
\* whose first height is above the maximum height + 1.
C33AsStated == (~dm.panic => DmConsecutive) /\ DmUpdated /\ DmPanicsOnlyAsDocumented

\* an update whose first height is below minimum_height() returned in a
\* build without overflow checks
C33Wrapped ==
    /\ ~dm.panic /\ dm.call.some /\ dm.call.val.op = "update"
    /\ dm.call.val.before # <<>>
    /\ dm.call.val.arg[1].height < minimum_height(dm.call.val.before)

(***************************************************************************)
(* download_blocks: the requests it sends and waits on.                    *)
(***************************************************************************)
\* download_blocks waits for a block after a getdata without inventories
IbdWaitsOnEmptyGetdata ==
    /\ ibd.pc = "wait_recv_blocks_and_apply"
    /\ ibd.sent[Len(ibd.sent)] = <<>>

\* C35: download_blocks never sends a getdata with an empty inventory list
\* and then waits for a block, its counter of remaining blocks stays within
\* what it asked for, and when it resolves with Ok every block is full; for
\* every number of header-only blocks, 0 and multiples of 16 included.
C35AsStated ==
    /\ ~IbdWaitsOnEmptyGetdata
    /\ ibd.n_req_blocks <= DL_AT_ONCE_MAX
    /\ ibd.ret = Some("Ok") => \A i \in 1..Len(ibd.header_only) : ~ibd.header_only[i]

\* the sixteen blocks of a chain of sixteen were received and made full, and
\* download_blocks waits on a second, empty getdata
C35Stuck ==
    /\ IbdWaitsOnEmptyGetdata
    /\ Len(ibd.header_only) = 16
    /\ \A i \in 1..Len(ibd.header_only) : ~ibd.header_only[i]
    /\ ibd.wire = <<>> /\ ibd.stream = <<>>

(***************************************************************************)
(* The mutex-guarded Connection: getheaders and the receive task.          *)
(***************************************************************************)
\* this step is the receive task handling a headers message
MxHandlesHeaders ==
    /\ mx.stream # <<>>
    /\ mx'.stream = Tail(mx.stream)
    /\ Head(mx.stream).cmd = "headers"

\* this step is getheaders returning the Err of send_p2p_msg
MxSendFails == mx.pc = "locked" /\ mx'.pc = "idle"

C38WitnessFailed ==
    /\ mx.ret = Some("Err") /\ mx.n_calls >= 2 /\ mx.pongs > 0

(***************************************************************************)
(* spawn_actor_with: what has happened when GracefulShutdown is dequeued.  *)
(***************************************************************************)
\* the task ended on the GracefulShutdown mail
ActShutDown == act.ended_on = "GracefulShutdown"

\* the messages sent before the first GracefulShutdown, in send order
RECURSIVE MsgsBeforeShutdown(_)
MsgsBeforeShutdown(mails) ==
    IF mails = <<>> \/ ~Head(mails).is_msg THEN <<>>
    ELSE <<Head(mails).msg>> \o MsgsBeforeShutdown(Tail(mails))

\* the messages handled are those sent before the GracefulShutdown, in send
\* order, and none sent after it
ActHandledInOrder == ActShutDown => act.handled = MsgsBeforeShutdown(act.sent)

\* C40: when the GracefulShutdown mail is dequeued, every message enqueued
\* before it was handled by on_message, in send order, no message enqueued
\* after it is handled, and shutdown() was invoked exactly once before the
\* task ended.
C40AsStated == ActHandledInOrder /\ (ActShutDown => act.shutdown_calls = 1)

\* the task ended on GracefulShutdown after it handled two messages, with a
\* third message sent behind the GracefulShutdown
C40Ended ==
    /\ ActShutDown
    /\ act.handled = <<1, 2>>
    /\ act.sent = <<Mail_Msg(1), Mail_Msg(2), Mail_GracefulShutdown, Mail_Msg(4)>>

====
